---- MODULE Spec2Model ----
(***************************************************************************)
(* binary-walkr: the dependency walk (src/src/dependencies.rs), the decode *)
(* entry point it calls (src/src/summarize.rs, summarize_path) and the     *)
(* cross-image symbol linker (src/src/resolve_symbols.rs) with its two     *)
(* callers (src/src/main.rs render_summary, src/src/ui/app.rs App::new),   *)
(* main's sequence of the three (src/src/main.rs), the search path         *)
(* (src/src/search_path.rs), the decoding of one image's dynamic tables    *)
(* (src/src/summarize.rs, analyze_dependencies) and the interactive App    *)
(* (src/src/ui/app.rs, ui/draw.rs) with its run loop (ui/crossterm.rs).    *)
(*                                                                         *)
(* Strings are sequences of byte values, so that the BTreeMap key order    *)
(* (byte-wise lexicographic) is computed and not assumed.  An Option is a  *)
(* sequence of length 0 (None) or 1 (Some).  A map is a function whose     *)
(* DOMAIN is its key set.                                                  *)
(***************************************************************************)
EXTENDS Integers, Sequences, FiniteSets, TLC

VARIABLES
    elf,                \* the root ElfSummary (main.rs:90)
    search_path,        \* Vec<PathBuf> handed to resolve_dependencies
    fs,                 \* the file system: directory x name -> file, as far as read
    work_items,         \* WorkQueue.work_items
    seen_items,         \* WorkQueue.seen_items
    res,                \* the BTreeMap resolve_dependencies builds and returns
    pc,                 \* control point
    dep_name,           \* the name taken by take_work (Option)
    dir_idx,            \* position of analyze_one_dependency's for loop
    probes,             \* history: per name, the directories handed to summarize_path
    enq,                \* history: per name, how often it was pushed on work_items
    ins,                \* history: per name, how often res.insert was called
    taken,              \* history: per name, how often take_work returned it
    plain_resolutions,  \* render_summary's symbol_resolutions (Option)
    symbol_resolutions, \* App::new's resolved_syms
    lib_idx,            \* position of App::new's for loop over all_libs
    merge_log,          \* history: the images whose imports App::new has linked
    input_file,         \* what the path args.input holds (main.rs:90)
    env,                \* the environment variable LD_LIBRARY_PATH (Option)
    sysroot,            \* Options.sysroot
    image,              \* the bytes handed to summarize_elf, by section
    summary,            \* what summarize_elf returned (Option)
    should_quit,        \* MutableAppData.should_quit
    selected_binary,    \* MutableAppData.selected_binary: ListState.selected()
    binary_ui_state     \* MutableAppData.binary_ui_state: path -> BinaryUIState

vars == <<elf, search_path, fs, work_items, seen_items, res, pc, dep_name, dir_idx,
          probes, enq, ins, taken, plain_resolutions, symbol_resolutions, lib_idx,
          merge_log, input_file, env, sysroot, image, summary,
          should_quit, selected_binary, binary_ui_state>>

walkVars == <<search_path, fs, work_items, seen_items, dep_name, dir_idx,
              probes, enq, ins, taken>>
linkVars == <<plain_resolutions, symbol_resolutions, lib_idx, merge_log>>
ioVars == <<input_file, env, sysroot, image, summary>>
uiVars == <<should_quit, selected_binary, binary_ui_state>>

----------------------------------------------------------------------------
(* Bounds *)

MaxNeeded == 2      \* longest DT_NEEDED list of an image
MaxSyms == 1        \* longest import list and longest export list of an image
MaxIter == 4        \* cap of the history counters (never reached by the walk)

\* Needed-names "a" and "ab", as byte strings.
Names == {<<1>>, <<1, 2>>}
Dirs == {"lib", "usr"}
Symbols == {"f", "g"}

RECURSIVE SeqsUpTo(_, _)
SeqsUpTo(S, n) ==
    IF n = 0 THEN {<<>>}
    ELSE LET shorter == SeqsUpTo(S, n - 1)
         IN  shorter \cup {Append(s, x) : s \in {t \in shorter : Len(t) = n - 1}, x \in S}

NeededLists == SeqsUpTo(Names, MaxNeeded)
\* Search paths up to renaming of the directories: empty, one directory, two
\* directories, one directory listed twice.
SearchPaths == {<<>>, <<"lib">>, <<"lib", "usr">>, <<"lib", "lib">>}
SymLists == SeqsUpTo(Symbols, MaxSyms)

None == <<>>
Some(x) == <<x>>

Range(s) == {s[i] : i \in 1..Len(s)}

\* No App is built yet.
AppNotBuilt ==
    /\ should_quit = FALSE
    /\ selected_binary = None
    /\ binary_ui_state = <<>>

----------------------------------------------------------------------------
(* Files and summaries *)

\* What a path can hold.  "Missing": fs::read fails.  "NotElf": the bytes are
\* read and neither header parses.  "Malformed": a header parses and
\* summarize_elf fails (e.g. a dynamic section without .dynstr).  "Static" and
\* "Dynamic": summarize_elf succeeds.
File(kind, deps, refs, provided) ==
    [kind |-> kind, deps |-> deps, dynamic_symbol_refs |-> refs,
     provided_dynamic_symbols |-> provided]

Unread == File("Unread", <<>>, <<>>, <<>>)

WalkFiles ==
    {File(k, <<>>, <<>>, <<>>) : k \in {"Missing", "NotElf", "Malformed", "Static"}}
    \cup {File("Dynamic", d, <<>>, <<>>) : d \in NeededLists}

\* What the directories after the first hit hold: files the walk never reads.
ShadowFiles ==
    {File(k, <<>>, <<>>, <<>>) : k \in {"Missing", "NotElf", "Malformed", "Static"}}
    \cup {File("Dynamic", <<n>>, <<>>, <<>>) : n \in Names}

\* A file summarize_elf accepts.
Decodable(file) == file.kind \in {"Static", "Dynamic"}

ElfSummary(filename, binary_type, deps, refs, provided) ==
    [filename |-> filename, binary_type |-> binary_type, deps |-> deps,
     dynamic_symbol_refs |-> refs, provided_dynamic_symbols |-> provided]

\* A decoder that takes a file with malformed dynamic tables for a static image.
summarize_path_lenient(path, file) ==
    CASE file.kind = "Missing" -> [tag |-> "Err", summ |-> None]
      [] file.kind = "NotElf" -> [tag |-> "Panic", summ |-> None]
      [] file.kind \in {"Malformed", "Static"} ->
            [tag |-> "Ok",
             summ |-> Some(ElfSummary(path, "Static", <<>>, <<>>, <<>>))]
      [] OTHER ->
            [tag |-> "Ok",
             summ |-> Some(ElfSummary(path, "Dynamic", file.deps,
                                      file.dynamic_symbol_refs,
                                      file.provided_dynamic_symbols))]

\* summarize_path: Err when the file cannot be read, a panic (unimplemented!())
\* when neither header parses, otherwise whatever summarize_elf returns.
summarize_path(path, file) ==
    CASE file.kind = "Missing" -> [tag |-> "Err", summ |-> None]
      [] file.kind = "NotElf" -> [tag |-> "Panic", summ |-> None]
      [] file.kind = "Malformed" -> [tag |-> "Err", summ |-> None]
      [] file.kind = "Static" ->
            [tag |-> "Ok",
             summ |-> Some(ElfSummary(path, "Static", <<>>, <<>>, <<>>))]
      [] OTHER ->
            [tag |-> "Ok",
             summ |-> Some(ElfSummary(path, "Dynamic", file.deps,
                                      file.dynamic_symbol_refs,
                                      file.provided_dynamic_symbols))]

\* dir.join(lib_name)
Candidate(dir, lib_name) == <<dir, lib_name>>

----------------------------------------------------------------------------
(* WorkQueue *)

\* A queue that pushes every listed name, seen or not.
RECURSIVE AddDepsUnchecked(_, _)
AddDepsUnchecked(q, deps) ==
    IF deps = <<>> THEN q
    ELSE AddDepsUnchecked([work_items |-> Append(q.work_items, Head(deps)),
                           seen_items |-> q.seen_items \cup {Head(deps)}],
                          Tail(deps))

\* A queue that does not mark a name seen when it pushes it.
RECURSIVE AddDepsNoMark(_, _)
AddDepsNoMark(q, deps) ==
    IF deps = <<>> THEN q
    ELSE LET dep == Head(deps)
         IN  IF dep \in q.seen_items
             THEN AddDepsNoMark(q, Tail(deps))
             ELSE AddDepsNoMark([work_items |-> Append(q.work_items, dep),
                                 seen_items |-> q.seen_items],
                                Tail(deps))

RECURSIVE AddDeps(_, _)
AddDeps(q, deps) ==
    IF deps = <<>> THEN q
    ELSE LET dep == Head(deps)
         IN  IF dep \in q.seen_items
             THEN AddDeps(q, Tail(deps))
             ELSE AddDeps([work_items |-> Append(q.work_items, dep),
                           seen_items |-> q.seen_items \cup {dep}],
                          Tail(deps))

\* A queue on which a static image pushes its own file name.
add_dependencies_static_self(q, summ) ==
    IF summ.binary_type = "Static" THEN AddDeps(q, <<summ.filename[2]>>)
    ELSE AddDeps(q, summ.deps)

\* A queue that takes only the first needed-name of an image.
add_dependencies_head_only(q, summ) ==
    IF summ.binary_type = "Static" \/ summ.deps = <<>> THEN q
    ELSE AddDeps(q, <<Head(summ.deps)>>)

add_dependencies(q, summ) ==
    IF summ.binary_type = "Static" THEN q ELSE AddDeps(q, summ.deps)

Queue == [work_items |-> work_items, seen_items |-> seen_items]

RECURSIVE Count(_, _)
Count(s, x) ==
    IF s = <<>> THEN 0 ELSE (IF Head(s) = x THEN 1 ELSE 0) + Count(Tail(s), x)

\* The names a queue operation pushed: what follows the old queue's items.
Pushed(old, new) == SubSeq(new, Len(old) + 1, Len(new))

MapInsert(m, k, v) == [x \in DOMAIN m \cup {k} |-> IF x = k THEN v ELSE m[x]]

Enqueued(f, pushed) ==
    [n \in Names |-> IF f[n] + Count(pushed, n) < MaxIter
                     THEN f[n] + Count(pushed, n) ELSE MaxIter]

Bump(f, k) == [f EXCEPT ![k] = IF @ < MaxIter THEN @ + 1 ELSE @]

----------------------------------------------------------------------------
(* resolve_dependencies *)

\* The input binary is the file "a" of a directory outside the search path.
RootPath == Candidate("in", <<1>>)

RootSummaries ==
    {ElfSummary(RootPath, "Static", <<>>, <<>>, <<>>)}
    \cup {ElfSummary(RootPath, "Dynamic", d, <<>>, <<>>) : d \in NeededLists}

Init ==
    /\ elf \in RootSummaries
    /\ search_path \in SearchPaths
    /\ fs = [d \in Dirs, n \in Names |-> Unread]
    /\ work_items = <<>>
    /\ seen_items = {}
    /\ res = <<>>
    /\ pc = "start"
    /\ dep_name = None
    /\ dir_idx = 0
    /\ probes = [n \in Names |-> <<>>]
    /\ enq = [n \in Names |-> 0]
    /\ ins = [n \in Names |-> 0]
    /\ taken = [n \in Names |-> 0]
    /\ plain_resolutions = None
    /\ AppNotBuilt
    /\ symbol_resolutions = <<>>
    /\ lib_idx = 0
    /\ merge_log = <<>>
    /\ input_file = Unread
    /\ env = None
    /\ sysroot = <<"/">>
    /\ image = None
    /\ summary = None

\* A for loop that walks the search path from its end.
ProbeDirReversed(i) == search_path[Len(search_path) + 1 - i]

\* The directory the for loop of analyze_one_dependency visits in its i-th round.
ProbeDir(i) == search_path[i]

\* dependencies.rs:72-75
SeedQueue ==
    /\ pc = "start"
    /\ LET q == add_dependencies(Queue, elf)
       IN  /\ work_items' = q.work_items
           /\ seen_items' = q.seen_items
           /\ enq' = Enqueued(enq, Pushed(work_items, q.work_items))
    /\ pc' = "loop"
    /\ UNCHANGED <<elf, search_path, fs, res, dep_name, dir_idx, probes, ins, taken>>
    /\ UNCHANGED linkVars
    /\ UNCHANGED uiVars
    /\ UNCHANGED ioVars

\* dependencies.rs:77, take_work returned Some(dep_name)
TakeWork ==
    /\ pc = "loop"
    /\ work_items # <<>>
    /\ taken[Head(work_items)] < MaxIter
    /\ dep_name' = Some(Head(work_items))
    /\ work_items' = Tail(work_items)
    /\ dir_idx' = 1
    /\ taken' = Bump(taken, Head(work_items))
    /\ pc' = "probe"
    /\ UNCHANGED <<elf, search_path, fs, seen_items, res, probes, enq, ins>>
    /\ UNCHANGED linkVars
    /\ UNCHANGED uiVars
    /\ UNCHANGED ioVars

\* dependencies.rs:77 and 90, take_work returned None
Return ==
    /\ pc = "loop"
    /\ work_items = <<>>
    /\ pc' = "done"
    /\ UNCHANGED <<elf, res>>
    /\ UNCHANGED walkVars
    /\ UNCHANGED linkVars
    /\ UNCHANGED uiVars
    /\ UNCHANGED ioVars

\* dependencies.rs:16-24 and 83-86: one directory of the search path.  The file
\* system is drawn as it is read; on a hit the files of the same name in the
\* directories not yet probed are drawn too, although the walk never reads them.
Probe ==
    /\ pc = "probe"
    /\ dir_idx <= Len(search_path)
    /\ LET name == dep_name[1]
           dir == ProbeDir(dir_idx)
           later == {ProbeDir(j) : j \in (dir_idx + 1)..Len(search_path)}
       IN  \E file \in (IF fs[dir, name] = Unread THEN WalkFiles ELSE {fs[dir, name]}) :
             LET r == summarize_path(Candidate(dir, name), file)
                 shadowed == IF r.tag = "Ok"
                             THEN {d \in later \ {dir} : fs[d, name] = Unread}
                             ELSE {}
             IN  /\ \E sh \in [shadowed -> ShadowFiles] :
                        fs' = [d \in Dirs, n \in Names |->
                                 IF n # name THEN fs[d, n]
                                 ELSE IF d = dir THEN file
                                 ELSE IF d \in shadowed THEN sh[d]
                                 ELSE fs[d, n]]
                 /\ probes' = [probes EXCEPT ![name] = Append(@, dir)]
                 /\ CASE r.tag = "Err" ->
                         /\ dir_idx' = dir_idx + 1
                         /\ UNCHANGED <<pc, work_items, seen_items, res, enq, ins>>
                    [] r.tag = "Panic" ->
                         /\ pc' = "panic"
                         /\ UNCHANGED <<dir_idx, work_items, seen_items, res, enq, ins>>
                    [] OTHER ->
                         LET q == add_dependencies(Queue, r.summ[1])
                         IN  /\ work_items' = q.work_items
                             /\ seen_items' = q.seen_items
                             /\ enq' = Enqueued(enq, Pushed(work_items, q.work_items))
                             /\ res' = MapInsert(res, name, r.summ)
                             /\ ins' = Bump(ins, name)
                             /\ pc' = "loop"
                             /\ UNCHANGED dir_idx
    /\ UNCHANGED <<elf, search_path, dep_name, taken>>
    /\ UNCHANGED linkVars
    /\ UNCHANGED uiVars
    /\ UNCHANGED ioVars

\* dependencies.rs:25-27 and 79-82: the search path is exhausted
RecordMissing ==
    /\ pc = "probe"
    /\ dir_idx > Len(search_path)
    /\ res' = MapInsert(res, dep_name[1], None)
    /\ ins' = Bump(ins, dep_name[1])
    /\ pc' = "loop"
    /\ UNCHANGED <<elf, search_path, fs, work_items, seen_items, dep_name, dir_idx,
                   probes, enq, taken>>
    /\ UNCHANGED linkVars
    /\ UNCHANGED uiVars
    /\ UNCHANGED ioVars

Next == SeedQueue \/ TakeWork \/ Return \/ Probe \/ RecordMissing

Spec == Init /\ [][Next]_vars

\* The walk is one sequential function: once called it runs to its end.
FairSpec == Spec /\ WF_vars(Next)

----------------------------------------------------------------------------
(* resolve_symbols and its callers *)

\* String order of Rust: byte-wise lexicographic, a proper prefix first.
RECURSIVE StrLess(_, _)
StrLess(a, b) ==
    IF b = <<>> THEN FALSE
    ELSE IF a = <<>> THEN TRUE
    ELSE IF Head(a) # Head(b) THEN Head(a) < Head(b)
    ELSE StrLess(Tail(a), Tail(b))

\* The keys from the greatest down.
RECURSIVE SortedKeysDescending(_)
SortedKeysDescending(S) ==
    IF S = {} THEN <<>>
    ELSE LET most == CHOOSE x \in S : \A y \in S \ {x} : StrLess(y, x)
         IN  <<most>> \o SortedKeysDescending(S \ {most})

\* The keys of a BTreeMap<String, _> in iteration order.
RECURSIVE SortedKeys(_)
SortedKeys(S) ==
    IF S = {} THEN <<>>
    ELSE LET least == CHOOSE x \in S : \A y \in S \ {x} : StrLess(x, y)
         IN  <<least>> \o SortedKeys(S \ {least})

RECURSIVE FilterSome(_, _)
FilterSome(m, keys) ==
    IF keys = <<>> THEN <<>>
    ELSE (IF m[Head(keys)] = None THEN <<>> ELSE <<m[Head(keys)][1]>>)
         \o FilterSome(m, Tail(keys))

RECURSIVE Reverse(_)
Reverse(q) == IF q = <<>> THEN <<>> ELSE Append(Reverse(Tail(q)), Head(q))

\* The resolved summaries from the greatest key down.
all_libs_descending(m) == Reverse(FilterSome(m, SortedKeys(DOMAIN m)))

\* deps.values().filter_map(|x| x.as_ref()).collect()
all_libs(m) == FilterSome(m, SortedKeys(DOMAIN m))

\* A linker that keeps the first provider it finds for a symbol.
RECURSIVE InsertProvidedKeepFirst(_, _, _, _)
InsertProvidedKeepFirst(m, needed_syms, provided, dep) ==
    IF provided = <<>> THEN m
    ELSE InsertProvidedKeepFirst(
             IF Head(provided) \in needed_syms /\ Head(provided) \notin DOMAIN m
             THEN MapInsert(m, Head(provided), dep) ELSE m,
             needed_syms, Tail(provided), dep)

\* resolve_symbols.rs:18-25: the exports of one dependency
RECURSIVE InsertProvided(_, _, _, _)
InsertProvided(m, needed_syms, provided, dep) ==
    IF provided = <<>> THEN m
    ELSE InsertProvided(
             IF Head(provided) \in needed_syms
             THEN MapInsert(m, Head(provided), dep) ELSE m,
             needed_syms, Tail(provided), dep)

\* A linker that stops at the first dependency after which every imported
\* symbol has a provider.
RECURSIVE ResolveOverUntilComplete(_, _, _)
ResolveOverUntilComplete(m, needed_syms, deps) ==
    IF deps = <<>> \/ needed_syms \subseteq DOMAIN m THEN m
    ELSE LET dep == Head(deps)
         IN  ResolveOverUntilComplete(
                 IF dep.binary_type = "Static" THEN m
                 ELSE InsertProvided(m, needed_syms, dep.provided_dynamic_symbols, dep),
                 needed_syms, Tail(deps))

\* resolve_symbols.rs:14-28: the dependencies in order
RECURSIVE ResolveOver(_, _, _)
ResolveOver(m, needed_syms, deps) ==
    IF deps = <<>> THEN m
    ELSE LET dep == Head(deps)
         IN  ResolveOver(
                 IF dep.binary_type = "Static" THEN m
                 ELSE InsertProvided(m, needed_syms, dep.provided_dynamic_symbols, dep),
                 needed_syms, Tail(deps))

\* A linker that records every export, imported or not.
resolve_symbols_unfiltered(dyn_sym_refs, deps) ==
    ResolveOver(<<>>, Symbols, deps)

\* resolve_symbols.rs:4-31.  A VersionedSymbol is its name: VersionedSymbol::new
\* (summarize.rs:32-35) leaves version None.
resolve_symbols(dyn_sym_refs, deps) ==
    ResolveOver(<<>>, {dyn_sym_refs[i] : i \in 1..Len(dyn_sym_refs)}, deps)

\* An append that drops what the receiving map held.
MapAppendReplace(self, other) == other

\* BTreeMap::append: on a key of both maps the entry of `other` stays.
MapAppend(self, other) ==
    [k \in DOMAIN self \cup DOMAIN other |->
        IF k \in DOMAIN other THEN other[k] ELSE self[k]]

\* What a dependency's path holds when the linker starts.
LinkFiles ==
    {File(k, <<>>, <<>>, <<>>) : k \in {"Missing", "Static"}}
    \cup {File("Dynamic", <<>>, r, p) : r \in SymLists, p \in SymLists}

\* The state main is in when resolve_dependencies has returned (main.rs:92):
\* a root and a map of its needed-names, found in the one directory searched.
\* A static root has an empty map.
LinkInit ==
    /\ \E K \in SUBSET Names : \E holds \in [K -> LinkFiles] :
          /\ res = [n \in K |-> summarize_path(Candidate("lib", n), holds[n]).summ]
          /\ fs = [d \in Dirs, n \in Names |->
                     IF d = "lib" /\ n \in K THEN holds[n] ELSE Unread]
          /\ seen_items = K
          /\ probes = [n \in Names |-> IF n \in K THEN <<"lib">> ELSE <<>>]
          /\ enq = [n \in Names |-> IF n \in K THEN 1 ELSE 0]
          /\ ins = [n \in Names |-> IF n \in K THEN 1 ELSE 0]
          /\ taken = [n \in Names |-> IF n \in K THEN 1 ELSE 0]
          /\ \/ K = {} /\ elf = ElfSummary(RootPath, "Static", <<>>, <<>>, <<>>)
             \/ \E r \in SymLists, p \in SymLists :
                   elf = ElfSummary(RootPath, "Dynamic", SortedKeys(K), r, p)
    /\ search_path = <<"lib">>
    /\ work_items = <<>>
    /\ pc = "main"
    /\ dep_name = None
    /\ dir_idx = 0
    /\ plain_resolutions = None
    /\ AppNotBuilt
    /\ symbol_resolutions = <<>>
    /\ lib_idx = 0
    /\ merge_log = <<>>
    /\ input_file = Unread
    /\ env = None
    /\ sysroot = <<"/">>
    /\ image = None
    /\ summary = None

\* main.rs:62-63, in render_summary
RenderSummary ==
    /\ pc = "main"
    /\ plain_resolutions' =
          IF elf.binary_type = "Static" THEN None
          ELSE Some(resolve_symbols(elf.dynamic_symbol_refs, all_libs(res)))
    /\ pc' = "rendered"
    /\ UNCHANGED <<elf, res, symbol_resolutions, lib_idx, merge_log>>
    /\ UNCHANGED walkVars
    /\ UNCHANGED uiVars
    /\ UNCHANGED ioVars

\* app.rs:149-155
AppNew ==
    /\ pc = "main"
    /\ symbol_resolutions' =
          IF elf.binary_type = "Static" THEN <<>>
          ELSE resolve_symbols(elf.dynamic_symbol_refs, all_libs(res))
    /\ merge_log' = IF elf.binary_type = "Static" THEN <<>> ELSE <<elf.filename>>
    /\ lib_idx' = 1
    /\ pc' = "app_libs"
    /\ UNCHANGED <<elf, res, plain_resolutions>>
    /\ UNCHANGED walkVars
    /\ UNCHANGED uiVars
    /\ UNCHANGED ioVars

\* app.rs:156-165: one library of the for loop
AppNewLib ==
    /\ pc = "app_libs"
    /\ lib_idx <= Len(all_libs(res))
    /\ LET lib == all_libs(res)[lib_idx]
       IN  /\ symbol_resolutions' =
              IF lib.binary_type = "Static" THEN symbol_resolutions
              ELSE MapAppend(symbol_resolutions,
                             resolve_symbols(lib.dynamic_symbol_refs, all_libs(res)))
           /\ merge_log' = IF lib.binary_type = "Static" THEN merge_log
                           ELSE Append(merge_log, lib.filename)
    /\ lib_idx' = lib_idx + 1
    /\ UNCHANGED <<elf, res, pc, plain_resolutions>>
    /\ UNCHANGED walkVars
    /\ UNCHANGED uiVars
    /\ UNCHANGED ioVars

\* app.rs:167-183: the static data keeps the merged map, the mutable data
\* starts with no selection and no per-binary state.
AppNewDone ==
    /\ pc = "app_libs"
    /\ lib_idx > Len(all_libs(res))
    /\ should_quit' = FALSE
    /\ selected_binary' = None
    /\ binary_ui_state' = <<>>
    /\ pc' = "app_ready"
    /\ UNCHANGED <<elf, res>>
    /\ UNCHANGED walkVars
    /\ UNCHANGED linkVars
    /\ UNCHANGED ioVars

LinkNext == RenderSummary \/ AppNew \/ AppNewLib \/ AppNewDone

LinkSpec == LinkInit /\ [][LinkNext]_vars

\* Import and export lists of up to two symbols.
MergeLists == {<<>>, <<"f">>, <<"g">>, <<"f", "g">>}

MergeFiles ==
    {File(k, <<>>, <<>>, <<>>) : k \in {"Missing", "Static"}}
    \cup {File("Dynamic", <<>>, r, p) : r \in MergeLists, p \in MergeLists}

\* The state main is in when resolve_dependencies has returned, as LinkInit,
\* over images that import and export up to two symbols each.
MergeInit ==
    /\ \E K \in SUBSET Names : \E holds \in [K -> MergeFiles] :
          /\ res = [n \in K |-> summarize_path(Candidate("lib", n), holds[n]).summ]
          /\ fs = [d \in Dirs, n \in Names |->
                     IF d = "lib" /\ n \in K THEN holds[n] ELSE Unread]
          /\ seen_items = K
          /\ probes = [n \in Names |-> IF n \in K THEN <<"lib">> ELSE <<>>]
          /\ enq = [n \in Names |-> IF n \in K THEN 1 ELSE 0]
          /\ ins = [n \in Names |-> IF n \in K THEN 1 ELSE 0]
          /\ taken = [n \in Names |-> IF n \in K THEN 1 ELSE 0]
          /\ \/ K = {} /\ elf = ElfSummary(RootPath, "Static", <<>>, <<>>, <<>>)
             \/ \E r \in MergeLists :
                   elf = ElfSummary(RootPath, "Dynamic", SortedKeys(K), r, <<>>)
    /\ search_path = <<"lib">>
    /\ work_items = <<>>
    /\ pc = "main"
    /\ dep_name = None
    /\ dir_idx = 0
    /\ plain_resolutions = None
    /\ symbol_resolutions = <<>>
    /\ lib_idx = 0
    /\ merge_log = <<>>
    /\ input_file = Unread
    /\ env = None
    /\ sysroot = <<"/">>
    /\ image = None
    /\ summary = None
    /\ AppNotBuilt

MergeSpec == MergeInit /\ [][LinkNext]_vars

----------------------------------------------------------------------------
(* main *)

\* main before its first statement: nothing is decoded or computed yet.
MainInit ==
    /\ input_file \in WalkFiles
    /\ env = None
    /\ sysroot = <<"/">>
    /\ image = None
    /\ summary = None
    /\ elf = None
    /\ search_path = <<>>
    /\ fs = [d \in Dirs, n \in Names |-> Unread]
    /\ work_items = <<>>
    /\ seen_items = {}
    /\ res = <<>>
    /\ pc = "main_start"
    /\ dep_name = None
    /\ dir_idx = 0
    /\ probes = [n \in Names |-> <<>>]
    /\ enq = [n \in Names |-> 0]
    /\ ins = [n \in Names |-> 0]
    /\ taken = [n \in Names |-> 0]
    /\ plain_resolutions = None
    /\ AppNotBuilt
    /\ symbol_resolutions = <<>>
    /\ lib_idx = 0
    /\ merge_log = <<>>

\* main.rs:90: summarize_path(&args.input)?  An Err leaves main through `?`,
\* a panic unwinds out of main.
MainSummarize ==
    /\ pc = "main_start"
    /\ LET r == summarize_path(RootPath, input_file)
       IN  CASE r.tag = "Err" -> pc' = "main_err" /\ UNCHANGED elf
             [] r.tag = "Panic" -> pc' = "panic" /\ UNCHANGED elf
             [] OTHER -> pc' = "main_search_path" /\ elf' = r.summ[1]
    /\ UNCHANGED res
    /\ UNCHANGED walkVars
    /\ UNCHANGED linkVars
    /\ UNCHANGED uiVars
    /\ UNCHANGED ioVars

\* main.rs:91-92: the search path is computed and resolve_dependencies called.
MainSearchPath ==
    /\ pc = "main_search_path"
    /\ search_path' \in SearchPaths
    /\ pc' = "start"
    /\ UNCHANGED <<elf, fs, work_items, seen_items, res, dep_name, dir_idx,
                   probes, enq, ins, taken>>
    /\ UNCHANGED linkVars
    /\ UNCHANGED uiVars
    /\ UNCHANGED ioVars

\* main.rs:92-94: resolve_dependencies has returned its map to main.
MainResolved ==
    /\ pc = "done"
    /\ pc' = "main"
    /\ UNCHANGED <<elf, res>>
    /\ UNCHANGED walkVars
    /\ UNCHANGED linkVars
    /\ UNCHANGED uiVars
    /\ UNCHANGED ioVars

MainNext == MainSummarize \/ MainSearchPath \/ Next \/ MainResolved \/ LinkNext

MainSpec == MainInit /\ [][MainNext]_vars

----------------------------------------------------------------------------
(* search_path *)

MaxEnv == 4         \* longest value of LD_LIBRARY_PATH

\* A path or an environment value is a sequence of tokens: the separators ":"
\* and "/" and the file names "d", "s", "lib", "lib64", "usr".
EnvChars == {":", "/", "d"}
EnvValues == {None} \cup {Some(v) : v \in SeqsUpTo(EnvChars, MaxEnv)}
Sysroots == {<<"/">>, <<"/", "s">>}

\* The walk and the linker before they are started.
NothingWalked ==
    /\ fs = [d \in Dirs, n \in Names |-> Unread]
    /\ work_items = <<>>
    /\ seen_items = {}
    /\ res = <<>>
    /\ dep_name = None
    /\ dir_idx = 0
    /\ probes = [n \in Names |-> <<>>]
    /\ enq = [n \in Names |-> 0]
    /\ ins = [n \in Names |-> 0]
    /\ taken = [n \in Names |-> 0]
    /\ plain_resolutions = None
    /\ AppNotBuilt
    /\ symbol_resolutions = <<>>
    /\ lib_idx = 0
    /\ merge_log = <<>>

\* env::split_paths on Unix: the value is cut at every ":"; what lies between
\* two cuts, before the first or after the last is one path, empty or not.
RECURSIVE SplitFrom(_, _)
SplitFrom(rest, cur) ==
    IF rest = <<>> THEN <<cur>>
    ELSE IF Head(rest) = ":" THEN <<cur>> \o SplitFrom(Tail(rest), <<>>)
    ELSE SplitFrom(Tail(rest), Append(cur, Head(rest)))

split_paths(path_str) == SplitFrom(path_str, <<>>)

\* Path::join with a relative path: a separator is put in unless the base is
\* empty or ends in one.
PathJoin(base, rel) ==
    IF base = <<>> \/ base[Len(base)] = "/" THEN base \o rel
    ELSE base \o <<"/">> \o rel

\* search_path.rs:23-26
DefaultDirs(root) ==
    <<PathJoin(root, <<"lib">>), PathJoin(root, <<"lib64">>),
      PathJoin(root, <<"usr", "/", "lib">>), PathJoin(root, <<"usr", "/", "lib64">>)>>

\* A search path that starts with the default directories.
compute_search_path_defaults_first(root, ld_library_path) ==
    DefaultDirs(root)
    \o (IF ld_library_path = None THEN <<>> ELSE split_paths(ld_library_path[1]))

\* search_path.rs:9-29, the function search_path
compute_search_path(root, ld_library_path) ==
    (IF ld_library_path = None THEN <<>> ELSE split_paths(ld_library_path[1]))
    \o DefaultDirs(root)

PathInit ==
    /\ env \in EnvValues
    /\ sysroot \in Sysroots
    /\ search_path = <<>>
    /\ pc = "sp_start"
    /\ elf = None
    /\ input_file = Unread
    /\ image = None
    /\ summary = None
    /\ NothingWalked

\* main.rs:91
SearchPath ==
    /\ pc = "sp_start"
    /\ search_path' = compute_search_path(sysroot, env)
    /\ pc' = "sp_done"
    /\ UNCHANGED <<elf, fs, work_items, seen_items, res, dep_name, dir_idx,
                   probes, enq, ins, taken>>
    /\ UNCHANGED linkVars
    /\ UNCHANGED uiVars
    /\ UNCHANGED ioVars

PathNext == SearchPath

PathSpec == PathInit /\ [][PathNext]_vars

----------------------------------------------------------------------------
(* Properties of search_path *)

RECURSIVE JoinPaths(_)
JoinPaths(ps) ==
    IF ps = <<>> THEN <<>>
    ELSE IF Len(ps) = 1 THEN ps[1]
    ELSE ps[1] \o <<":">> \o JoinPaths(Tail(ps))

\* <sysroot>/lib, <sysroot>/lib64, <sysroot>/usr/lib, <sysroot>/usr/lib64,
\* written out for the two sysroots "/" and "/s".
FourDefaults ==
    IF sysroot = <<"/">>
    THEN <<<<"/", "lib">>, <<"/", "lib64">>,
           <<"/", "usr", "/", "lib">>, <<"/", "usr", "/", "lib64">>>>
    ELSE <<<<"/", "s", "/", "lib">>, <<"/", "s", "/", "lib64">>,
           <<"/", "s", "/", "usr", "/", "lib">>, <<"/", "s", "/", "usr", "/", "lib64">>>>

\* What LD_LIBRARY_PATH contributed: all but the last four entries.
FromEnv == SubSeq(search_path, 1, Len(search_path) - 4)

\* C14: search_path returns the pieces of LD_LIBRARY_PATH between its
\* separators, in their order (no piece holds a separator, and joined by the
\* separator they give the value back), followed by the four sysroot
\* directories; the last four entries are these four for every value.
C14_EnvThenDefaults ==
    pc = "sp_done" =>
        /\ Len(search_path) >= 4
        /\ SubSeq(search_path, Len(search_path) - 3, Len(search_path)) = FourDefaults
        /\ env = None => FromEnv = <<>>
        /\ env # None =>
              /\ JoinPaths(FromEnv) = env[1]
              /\ \A i \in 1..Len(FromEnv) : ":" \notin Range(FromEnv[i])
              /\ env[1] # <<>> => FromEnv # <<>>

\* Reached: LD_LIBRARY_PATH = "d:/d" under the sysroot "/s" gave the six
\* directories d, /d, /s/lib, /s/lib64, /s/usr/lib, /s/usr/lib64.
C14_Witness ==
    /\ pc = "sp_done"
    /\ env = Some(<<"d", ":", "/", "d">>)
    /\ sysroot = <<"/", "s">>
    /\ Len(search_path) = 6
    /\ search_path[1] = <<"d">>
    /\ search_path[2] = <<"/", "d">>
    /\ search_path[3] = <<"/", "s", "/", "lib">>

\* C15: an unset or empty LD_LIBRARY_PATH contributes no directory: the result
\* is the four sysroot directories and holds no empty path.
C15_EmptyContributesNothing ==
    pc = "sp_done" /\ (env = None \/ env = Some(<<>>)) =>
        /\ search_path = FourDefaults
        /\ \A i \in 1..Len(search_path) : search_path[i] # <<>>

----------------------------------------------------------------------------
(* summarize_elf: decoding one image *)

MaxEntries == 3     \* longest .dynsym table

DT_NEEDED == 1
SHN_UNDEF == 0

Endians == {"Little", "Big"}

\* A multi-byte field is two bytes wide here and holds a value below 2^16.
Enc16(v, end) ==
    IF end = "Little" THEN <<v % 256, v \div 256>> ELSE <<v \div 256, v % 256>>

\* A field read in the byte order of the host, taken to be little-endian.
U16HostOrder(b, end) == b[1] + 256 * b[2]

\* A field read in the byte order `end`.
U16(b, end) ==
    IF end = "Little" THEN b[1] + 256 * b[2] ELSE 256 * b[1] + b[2]

\* .dynstr: the strings by offset (first offset 0): "", "f", "g" and the bytes
\* 'f' 0xFF, which are no UTF-8.  An offset past the table cannot be read.
DynStrTab == <<<<>>, <<102>>, <<103>>, <<102, 255>>>>

NameOffsets == 0..Len(DynStrTab)

\* .dynsym entries before encoding: name offset and section index; the value
\* is 16 * (name offset + 1) and the size 8.
LogicalSyms == [st_name : NameOffsets, st_shndx : {SHN_UNDEF, 1}]

EncodeSyms(syms, end) ==
    [i \in 1..Len(syms) |->
        [st_name |-> Enc16(syms[i].st_name, end),
         st_shndx |-> Enc16(syms[i].st_shndx, end),
         st_value |-> Enc16(16 * (syms[i].st_name + 1), end),
         st_size |-> Enc16(8, end)]]

\* Dynamic sections before encoding, as lists of <<tag, value>>: needed "f";
\* needed "g" then "f"; another tag then needed "g"; a needed name that is no
\* UTF-8; a needed name that cannot be read.
DynLists ==
    {<<>>,
     <<<<DT_NEEDED, 1>>>>,
     <<<<DT_NEEDED, 2>>, <<DT_NEEDED, 1>>>>,
     <<<<5, 1>>, <<DT_NEEDED, 2>>>>,
     <<<<DT_NEEDED, 3>>>>,
     <<<<DT_NEEDED, 4>>>>}

EncodeDyn(dyns, end) ==
    [i \in 1..Len(dyns) |->
        [d_tag |-> Enc16(dyns[i][1], end), d_val |-> Enc16(dyns[i][2], end)]]

\* An image: its byte order (e_ident[EI_DATA]) and its sections, each an Option.
Image(end, dynamic, dynstr, dynsym) ==
    [endian |-> end, dynamic |-> dynamic, dynstr |-> dynstr, dynsym |-> dynsym]

SymTables == SeqsUpTo(LogicalSyms, MaxEntries)

\* The one-entry table of the images that lack another section.
NullTable == <<[st_name |-> 0, st_shndx |-> SHN_UNDEF]>>

\* StringTable::get
StringAt(strings, offset) ==
    IF offset < Len(strings)
    THEN [ok |-> TRUE, bytes |-> strings[offset + 1]]
    ELSE [ok |-> FALSE, bytes |-> <<>>]

\* String::from_utf8 succeeds: every byte is ASCII (the strings of DynStrTab
\* hold no multi-byte sequence).
ValidUtf8(bytes) == \A i \in 1..Len(bytes) : bytes[i] < 128

\* A conversion that leaves the invalid bytes out.
RECURSIVE from_utf8_skip_invalid(_)
from_utf8_skip_invalid(bytes) ==
    IF bytes = <<>> THEN <<>>
    ELSE (IF Head(bytes) < 128 THEN <<Head(bytes)>> ELSE <<>>)
         \o from_utf8_skip_invalid(Tail(bytes))

\* String::from_utf8_lossy: an invalid byte becomes U+FFFD (EF BF BD).
RECURSIVE from_utf8_lossy(_)
from_utf8_lossy(bytes) ==
    IF bytes = <<>> THEN <<>>
    ELSE (IF Head(bytes) < 128 THEN <<Head(bytes)>> ELSE <<239, 191, 189>>)
         \o from_utf8_lossy(Tail(bytes))

\* "<Error>"
ErrorName == <<60, 69, 114, 114, 111, 114, 62>>

\* summarize.rs:24-37, VersionedSymbol::new: the symbol's name
VersionedSymbol_new(end, dyn_strings, sym) ==
    LET name == StringAt(dyn_strings, U16(sym.st_name, end))
    IN  IF name.ok THEN from_utf8_lossy(name.bytes) ELSE ErrorName

\* Sym::is_undefined
is_undefined(sym, end) == U16(sym.st_shndx, end) = SHN_UNDEF

\* summarize.rs:163-174: the DT_NEEDED entries, in order; the first string that
\* cannot be read or is no UTF-8 ends the decode.
RECURSIVE NeededOf(_, _, _, _)
NeededOf(dyn_entries, end, dyn_strings, dyn_deps) ==
    IF dyn_entries = <<>> THEN [tag |-> "Ok", err |-> "", deps |-> dyn_deps]
    ELSE LET d == Head(dyn_entries)
         IN  IF U16(d.d_tag, end) # DT_NEEDED
             THEN NeededOf(Tail(dyn_entries), end, dyn_strings, dyn_deps)
             ELSE LET s == StringAt(dyn_strings, U16(d.d_val, end))
                  IN  IF ~s.ok
                      THEN [tag |-> "Err", err |-> "ElfParseError", deps |-> <<>>]
                      ELSE IF ~ValidUtf8(s.bytes)
                      THEN [tag |-> "Err", err |-> "FromUtf8Error", deps |-> <<>>]
                      ELSE NeededOf(Tail(dyn_entries), end, dyn_strings,
                                    Append(dyn_deps, s.bytes))

\* summarize.rs:183-206: the loop over the .dynsym entries
RECURSIVE ScanSymbols(_, _, _, _)
ScanSymbols(syms, end, dyn_strings, acc) ==
    IF syms = <<>> THEN acc
    ELSE LET sym == Head(syms)
             sym_name == VersionedSymbol_new(end, dyn_strings, sym)
         IN  ScanSymbols(Tail(syms), end, dyn_strings,
                 IF sym_name = <<>> THEN acc
                 ELSE IF is_undefined(sym, end)
                 THEN [acc EXCEPT !.undef_symbols = Append(@, [symbol |-> sym_name])]
                 ELSE [acc EXCEPT !.def_symbols =
                          Append(@, [symbol |-> sym_name,
                                     size |-> U16(sym.st_size, end),
                                     address |-> U16(sym.st_value, end)])])

DecodeErr(e) == [tag |-> "Err", err |-> e, binary_type |-> "", deps |-> <<>>,
                 dynamic_symbol_refs |-> <<>>, provided_dynamic_symbols |-> <<>>]

DecodeOk(binary_type, deps, refs, provided) ==
    [tag |-> "Ok", err |-> "", binary_type |-> binary_type, deps |-> deps,
     dynamic_symbol_refs |-> refs, provided_dynamic_symbols |-> provided]

\* A decoder that takes an image without .dynsym for one without symbols.
analyze_dependencies_no_dynsym_ok(img) ==
    LET end == img.endian
    IN  IF img.dynamic = None THEN DecodeOk("Static", <<>>, <<>>, <<>>)
        ELSE IF img.dynstr = None THEN DecodeErr("MissingExpectedDynstrSection")
        ELSE LET needed == NeededOf(img.dynamic[1], end, img.dynstr[1], <<>>)
             IN  IF needed.tag = "Err" THEN DecodeErr(needed.err)
                 ELSE LET syms == ScanSymbols(IF img.dynsym = None THEN <<>>
                                              ELSE img.dynsym[1],
                                              end, img.dynstr[1],
                                              [undef_symbols |-> <<>>, def_symbols |-> <<>>])
                      IN  DecodeOk("Dynamic", needed.deps,
                                   syms.undef_symbols, syms.def_symbols)

\* summarize.rs:142-216
analyze_dependencies(img) ==
    LET end == img.endian
    IN  IF img.dynamic = None THEN DecodeOk("Static", <<>>, <<>>, <<>>)
        ELSE IF img.dynstr = None THEN DecodeErr("MissingExpectedDynstrSection")
        ELSE LET needed == NeededOf(img.dynamic[1], end, img.dynstr[1], <<>>)
             IN  IF needed.tag = "Err" THEN DecodeErr(needed.err)
                 ELSE IF img.dynsym = None
                 THEN DecodeErr("MissingExpectedDynsymSection")
                 ELSE LET syms == ScanSymbols(img.dynsym[1], end, img.dynstr[1],
                                              [undef_symbols |-> <<>>, def_symbols |-> <<>>])
                      IN  DecodeOk("Dynamic", needed.deps,
                                   syms.undef_symbols, syms.def_symbols)

\* summarize.rs:253-278: the result of analyze_dependencies, with the byte order
\* of the header when there is a summary.
summarize_elf(img) ==
    LET r == analyze_dependencies(img)
    IN  [tag |-> r.tag, err |-> r.err,
         summ |-> IF r.tag = "Err" THEN None
                  ELSE Some([endianness |-> img.endian,
                             binary_type |-> r.binary_type,
                             deps |-> r.deps,
                             dynamic_symbol_refs |-> r.dynamic_symbol_refs,
                             provided_dynamic_symbols |-> r.provided_dynamic_symbols])]

\* An image in either byte order: without a dynamic section; with one and
\* without .dynstr; with one and without .dynsym; with all three sections.
DecodeInit ==
    /\ \E end \in Endians :
          \/ \E s \in {None, Some(DynStrTab)},
                t \in {None, Some(EncodeSyms(NullTable, end))} :
                image = Image(end, None, s, t)
          \/ \E d \in DynLists, t \in {None, Some(EncodeSyms(NullTable, end))} :
                image = Image(end, Some(EncodeDyn(d, end)), None, t)
          \/ \E d \in DynLists :
                image = Image(end, Some(EncodeDyn(d, end)), Some(DynStrTab), None)
          \/ \E d \in DynLists, t \in SymTables :
                image = Image(end, Some(EncodeDyn(d, end)), Some(DynStrTab),
                              Some(EncodeSyms(t, end)))
    /\ summary = None
    /\ pc = "decode_start"
    /\ elf = None
    /\ search_path = <<>>
    /\ input_file = Unread
    /\ env = None
    /\ sysroot = <<"/">>
    /\ NothingWalked

\* summarize.rs:282-287: a header has parsed and summarize_elf is called
SummarizeElf ==
    /\ pc = "decode_start"
    /\ summary' = Some(summarize_elf(image))
    /\ pc' = "decoded"
    /\ UNCHANGED <<elf, res, input_file, env, sysroot, image>>
    /\ UNCHANGED walkVars
    /\ UNCHANGED linkVars
    /\ UNCHANGED uiVars

DecodeNext == SummarizeElf

DecodeSpec == DecodeInit /\ [][DecodeNext]_vars

----------------------------------------------------------------------------
(* The interactive App: ui/app.rs, ui/draw.rs, ui/crossterm.rs *)

MaxRows == 2        \* rows of the longest symbol table shown

\* TabState::new: the labels of the tab bar, the first one selected.
TabLabels == <<"Overview", "DynamicDependencies", "DefinedDynamicSymbols">>

TabState_new == [tab_labels |-> TabLabels, selected_tab |-> 0]

\* TabState::selected_label; the index counts from 0.
selected_label(tab_state) == tab_state.tab_labels[tab_state.selected_tab + 1]

Min(a, b) == IF a < b THEN a ELSE b
Max(a, b) == IF a > b THEN a ELSE b

\* A step down that goes on past the last row.
increment_table_selection_unbounded(table_state, num_items) ==
    IF num_items = 0 THEN table_state
    ELSE IF table_state = None THEN Some(0)
    ELSE Some(table_state[1] + 1)

\* app.rs:59-72.  A TableState is its selection (Option of a row index).
increment_table_selection(table_state, num_items) ==
    IF num_items = 0 THEN table_state
    ELSE IF table_state = None THEN Some(0)
    ELSE Some(Min(num_items - 1, table_state[1] + 1))

\* app.rs:74-88
decrement_table_selection(table_state, num_items) ==
    IF num_items = 0 THEN table_state
    ELSE IF table_state = None THEN Some(num_items - 1)
    ELSE IF table_state[1] = 0 THEN table_state
    ELSE Some(Max(0, table_state[1] - 1))

\* BinaryUIState::new; TableState::default() has nothing selected.
BinaryUIState_new ==
    [tab_state |-> TabState_new,
     defined_dynamic_table_state |-> None,
     dynamic_reference_table_state |-> None]

\* A lookup that gives every visit a fresh state.
ui_state_entry_fresh(m, bin) == MapInsert(m, bin.filename, BinaryUIState_new)

\* MutableAppData::binary_ui_state (app.rs:130-134): the map after
\* entry(bin.filename).or_insert_with(BinaryUIState::new); the state handed
\* out is its entry at bin.filename.
ui_state_entry(m, bin) ==
    IF bin.filename \in DOMAIN m THEN m
    ELSE MapInsert(m, bin.filename, BinaryUIState_new)

\* The mutable data of the App as one value.
App == [should_quit |-> should_quit, selected_binary |-> selected_binary,
        binary_ui_state |-> binary_ui_state]

\* resolved_dependencies.values(), in key order (app.rs:193-198)
DepValues == [i \in 1..Cardinality(DOMAIN res) |-> res[SortedKeys(DOMAIN res)[i]]]

\* v[idx - 1] of App::selected_binary is out of bounds and panics.
IndexPanics(app) ==
    /\ app.selected_binary # None
    /\ app.selected_binary[1] > Len(DepValues)

\* A selection that reads the dependency at the list index itself.
App_selected_binary_off_by_one(app) ==
    IF app.selected_binary = None THEN None
    ELSE IF app.selected_binary[1] = 0 THEN Some(elf)
    ELSE IF app.selected_binary[1] + 1 > Len(DepValues) THEN None
    ELSE DepValues[app.selected_binary[1] + 1]

\* App::selected_binary (app.rs:186-203): index 0 is the root, index i the
\* i-th value of the dependency map.
App_selected_binary(app) ==
    IF app.selected_binary = None THEN None
    ELSE IF app.selected_binary[1] = 0 THEN Some(elf)
    ELSE DepValues[app.selected_binary[1]]

\* A Ctrl-n that does not stop at the last entry.
select_next_unbounded(selected, num_bins) ==
    IF selected = None THEN Some(0) ELSE Some(selected[1] + 1)

\* app.rs:228-240
select_next(selected, num_bins) ==
    IF selected = None THEN Some(0)
    ELSE Some(Min(selected[1] + 1, num_bins - 1))

\* app.rs:210-227
select_previous(selected, num_bins) ==
    IF selected = None THEN Some(num_bins - 1)
    ELSE IF selected[1] = 0 THEN selected
    ELSE Some(selected[1] - 1)

\* The characters c with c >= '1' && c <= '9', and c.to_digit(10).
to_digit ==
    [c \in {"1", "2", "3", "4", "5", "6", "7", "8", "9"} |->
        CASE c = "1" -> 1 [] c = "2" -> 2 [] c = "3" -> 3 [] c = "4" -> 4
          [] c = "5" -> 5 [] c = "6" -> 6 [] c = "7" -> 7 [] c = "8" -> 8
          [] OTHER -> 9]

\* An ALT+digit that switches the tab of every binary that has a state.
alt_digit_all_binaries(app, c) ==
    LET sel == App_selected_binary(app)
    IN  IF sel = None THEN app
        ELSE IF sel[1].filename \notin DOMAIN app.binary_ui_state THEN app
        ELSE LET user_req == to_digit[c] - 1
             IN  IF user_req < Len(TabLabels)
                 THEN [app EXCEPT !.binary_ui_state =
                          [p \in DOMAIN @ |->
                              [@[p] EXCEPT !.tab_state.selected_tab = user_req]]]
                 ELSE app

\* app.rs:241-265: ALT+digit
alt_digit(app, c) ==
    LET sel == App_selected_binary(app)
    IN  IF sel = None THEN app
        ELSE IF sel[1].filename \notin DOMAIN app.binary_ui_state THEN app
        ELSE LET user_req == to_digit[c] - 1
                 ui_state == app.binary_ui_state[sel[1].filename]
             IN  IF user_req < Len(ui_state.tab_state.tab_labels)
                 THEN [app EXCEPT
                          !.binary_ui_state[sel[1].filename].tab_state.selected_tab = user_req]
                 ELSE app

\* The table step of a key code: app.rs:277, 284 (Up) and 307, 314 (Down).
step_table_selection(code, table_state, num_items) ==
    IF code = "Up" THEN decrement_table_selection(table_state, num_items)
    ELSE increment_table_selection(table_state, num_items)

\* app.rs:266-323: KeyCode::Up and KeyCode::Down
move_table_selection(app, code) ==
    LET sel == App_selected_binary(app)
    IN  IF sel = None THEN app
        ELSE IF sel[1].binary_type = "Static" THEN app
        ELSE LET m == ui_state_entry(app.binary_ui_state, sel[1])
                 path == sel[1].filename
                 selected_tab == selected_label(m[path].tab_state)
             IN  [app EXCEPT !.binary_ui_state =
                    CASE selected_tab = "DefinedDynamicSymbols" ->
                           [m EXCEPT ![path].defined_dynamic_table_state =
                               step_table_selection(
                                   code, @, Len(sel[1].provided_dynamic_symbols))]
                      [] selected_tab = "DynamicDependencies" ->
                           [m EXCEPT ![path].dynamic_reference_table_state =
                               step_table_selection(
                                   code, @, Len(sel[1].dynamic_symbol_refs))]
                      [] OTHER -> m]

\* crossterm's KeyEvent, as far as on_key reads it.
KeyEvent(code, modifiers) == [code |-> code, modifiers |-> modifiers]

\* The keys on_key acts on, and keys next to them: a letter without CONTROL,
\* ALT with a digit outside '1'..'9' or beyond the tabs, a digit without ALT,
\* an arrow key with a modifier.
KeyEvents ==
    {KeyEvent(c, "CONTROL") : c \in {"q", "p", "n", "Up"}}
    \cup {KeyEvent(c, "ALT") : c \in {"0", "1", "2", "3", "4", "9", "n"}}
    \cup {KeyEvent(c, "NONE") : c \in {"q", "1", "Up", "Down"}}

\* App::on_key (app.rs:205-326)
on_key(app, evt) ==
    LET num_bins == 1 + Cardinality(DOMAIN res)
    IN  CASE evt.code = "q" /\ evt.modifiers = "CONTROL" ->
               [app EXCEPT !.should_quit = TRUE]
          [] evt.code = "p" /\ evt.modifiers = "CONTROL" ->
               [app EXCEPT !.selected_binary = select_previous(@, num_bins)]
          [] evt.code = "n" /\ evt.modifiers = "CONTROL" ->
               [app EXCEPT !.selected_binary = select_next(@, num_bins)]
          [] evt.code \in DOMAIN to_digit /\ evt.modifiers = "ALT" ->
               alt_digit(app, evt.code)
          [] evt.code = "Up" -> move_table_selection(app, "Up")
          [] evt.code = "Down" -> move_table_selection(app, "Down")
          [] OTHER -> app

\* The key events for which on_key calls App::selected_binary.
ReadsSelection(evt) ==
    \/ evt.code \in DOMAIN to_digit /\ evt.modifiers = "ALT"
    \/ evt.code \in {"Up", "Down"}

\* draw (draw.rs:168-178): the sidebar changes no selection; draw_selected_binary
\* (draw.rs:130-166) asks for the UI state of the selected binary, if any.
draw(app) ==
    LET sel == App_selected_binary(app)
    IN  IF sel = None THEN app
        ELSE [app EXCEPT !.binary_ui_state = ui_state_entry(@, sel[1])]

\* The symbols of a table of MaxRows rows.
UISyms == [i \in 1..MaxRows |-> IF i % 2 = 1 THEN "f" ELSE "g"]

\* An image that imports MaxRows symbols and exports none, and one that
\* exports MaxRows symbols and imports none.
ImportingFile == File("Dynamic", <<>>, UISyms, <<>>)
ExportingFile == File("Dynamic", <<>>, <<>>, UISyms)

UIFiles ==
    {File(k, <<>>, <<>>, <<>>) : k \in {"Missing", "Static"}}
    \cup {ImportingFile, ExportingFile}

\* The state main is in when resolve_dependencies has returned and the
\* interactive mode is chosen (main.rs:92-97).  The root is given by a path
\* outside the search path, or by the path lib/a, where the search for the
\* needed-name "a" finds the root's file again.
UIInit ==
    /\ \E K \in SUBSET Names : \E files \in [K -> UIFiles], own \in BOOLEAN :
        LET holds == [n \in K |->
                        IF own /\ n = <<1>>
                        THEN File("Dynamic", SortedKeys(K), UISyms, <<>>)
                        ELSE files[n]]
        IN
          /\ res = [n \in K |-> summarize_path(Candidate("lib", n), holds[n]).summ]
          /\ fs = [d \in Dirs, n \in Names |->
                     IF d = "lib" /\ n \in K THEN holds[n] ELSE Unread]
          /\ seen_items = K
          /\ probes = [n \in Names |-> IF n \in K THEN <<"lib">> ELSE <<>>]
          /\ enq = [n \in Names |-> IF n \in K THEN 1 ELSE 0]
          /\ ins = [n \in Names |-> IF n \in K THEN 1 ELSE 0]
          /\ taken = [n \in Names |-> IF n \in K THEN 1 ELSE 0]
          /\ \/ ~own /\ K = {} /\ elf = ElfSummary(RootPath, "Static", <<>>, <<>>, <<>>)
             \/ ~own /\ elf = ElfSummary(RootPath, "Dynamic", SortedKeys(K), UISyms, <<>>)
             \/ /\ own
                /\ <<1>> \in K
                /\ files[<<1>>] = ImportingFile
                /\ elf = summarize_path(Candidate("lib", <<1>>), holds[<<1>>]).summ[1]
    /\ search_path = <<"lib">>
    /\ work_items = <<>>
    /\ pc = "main"
    /\ dep_name = None
    /\ dir_idx = 0
    /\ plain_resolutions = None
    /\ symbol_resolutions = <<>>
    /\ lib_idx = 0
    /\ merge_log = <<>>
    /\ input_file = Unread
    /\ env = None
    /\ sysroot = <<"/">>
    /\ image = None
    /\ summary = None
    /\ AppNotBuilt

\* One call of draw on the App.
AppDraw ==
    /\ pc = "app_ready"
    /\ ~should_quit
    /\ IF IndexPanics(App)
       THEN pc' = "panic" /\ UNCHANGED uiVars
       ELSE /\ binary_ui_state' = draw(App).binary_ui_state
            /\ UNCHANGED <<pc, should_quit, selected_binary>>
    /\ UNCHANGED <<elf, res>>
    /\ UNCHANGED walkVars
    /\ UNCHANGED linkVars
    /\ UNCHANGED ioVars

\* What one call of on_key leaves.
HandleKey(evt) ==
    \E app \in {on_key(App, evt)} :
        /\ should_quit' = app.should_quit
        /\ selected_binary' = app.selected_binary
        /\ binary_ui_state' = app.binary_ui_state

\* One call of on_key on the App.
AppOnKey ==
    /\ pc = "app_ready"
    /\ ~should_quit
    /\ \E evt \in KeyEvents :
          IF ReadsSelection(evt) /\ IndexPanics(App)
          THEN pc' = "panic" /\ UNCHANGED uiVars
          ELSE HandleKey(evt) /\ UNCHANGED pc
    /\ UNCHANGED <<elf, res>>
    /\ UNCHANGED walkVars
    /\ UNCHANGED linkVars
    /\ UNCHANGED ioVars

\* The App as an object: built by App::new, then draw and on_key in any order.
AppNext == AppNew \/ AppNewLib \/ AppNewDone \/ AppDraw \/ AppOnKey

AppSpec == UIInit /\ [][AppNext]_vars

\* A loop that handles the keys that are waiting before it draws again.
AfterKeyPollAgain == "run_poll"

\* run_app handles at most one key event, then loops to the draw
\* (crossterm.rs:20-36).
AfterKey == "run_draw"

\* crossterm.rs:50-51: run hands the App to run_app.
RunApp ==
    /\ pc = "app_ready"
    /\ pc' = "run_draw"
    /\ UNCHANGED <<elf, res>>
    /\ UNCHANGED walkVars
    /\ UNCHANGED linkVars
    /\ UNCHANGED ioVars
    /\ UNCHANGED uiVars

\* crossterm.rs:21: terminal.draw(|f| draw::draw(f, &mut app))
RunDraw ==
    /\ pc = "run_draw"
    /\ IF IndexPanics(App)
       THEN pc' = "panic" /\ UNCHANGED uiVars
       ELSE /\ binary_ui_state' = draw(App).binary_ui_state
            /\ pc' = "run_poll"
            /\ UNCHANGED <<should_quit, selected_binary>>
    /\ UNCHANGED <<elf, res>>
    /\ UNCHANGED walkVars
    /\ UNCHANGED linkVars
    /\ UNCHANGED ioVars

\* crossterm.rs:24-36: a key event is read and handled, then should_quit is
\* tested.
RunKey ==
    /\ pc = "run_poll"
    /\ \E evt \in KeyEvents :
          IF ReadsSelection(evt) /\ IndexPanics(App)
          THEN pc' = "panic" /\ UNCHANGED uiVars
          ELSE /\ HandleKey(evt)
               /\ pc' = IF should_quit' THEN "run_quit" ELSE AfterKey
    /\ UNCHANGED <<elf, res>>
    /\ UNCHANGED walkVars
    /\ UNCHANGED linkVars
    /\ UNCHANGED ioVars

\* crossterm.rs:24-36: the poll times out, or the event read is no key event.
RunNoKey ==
    /\ pc = "run_poll"
    /\ pc' = "run_draw"
    /\ UNCHANGED <<elf, res>>
    /\ UNCHANGED walkVars
    /\ UNCHANGED linkVars
    /\ UNCHANGED ioVars
    /\ UNCHANGED uiVars

RunNext ==
    AppNew \/ AppNewLib \/ AppNewDone \/ RunApp \/ RunDraw \/ RunKey \/ RunNoKey

\* ui::crossterm::run: App::new, then the loop of run_app.
RunSpec == UIInit /\ [][RunNext]_vars

----------------------------------------------------------------------------
(* Properties of the dependency walk *)

RootName == RootPath[2]

\* The positions of the search path whose directory holds a decodable file n.
HitIdx(n) == {i \in 1..Len(search_path) : Decodable(fs[search_path[i], n])}

FirstHit(n) == CHOOSE i \in HitIdx(n) : \A j \in HitIdx(n) : i <= j

\* C1: in the map of resolve_dependencies a key maps to None exactly when no
\* directory of the search path holds a decodable file of that name, and to
\* Some(summary of an image) otherwise.
C1_NoneIffNoDecode ==
    \A n \in DOMAIN res :
        /\ (res[n] = None) <=> (HitIdx(n) = {})
        /\ res[n] # None =>
              /\ Len(res[n]) = 1
              /\ res[n][1].binary_type \in {"Static", "Dynamic"}

\* Reached: a returned map with an unresolved and a resolved key, the
\* unresolved one after a malformed file and two directories.
C1_Witness ==
    /\ pc = "done"
    /\ Len(search_path) = 2
    /\ \E n \in DOMAIN res, m \in DOMAIN res :
          /\ res[n] = None
          /\ res[m] # None
          /\ \E d \in Range(probes[n]) : fs[d, n].kind = "Malformed"

\* C2 (as claimed): a probed file that is no valid ELF, whether no header
\* parses or the dynamic tables are malformed, is passed over like a missing
\* file: its name is still being probed or has been recorded.
C2_UndecodableLikeMissing ==
    \A n \in Names :
        (\E d \in Range(probes[n]) : fs[d, n].kind \in {"NotElf", "Malformed"})
            => \/ pc = "probe" /\ dep_name = Some(n)
               \/ n \in DOMAIN res

\* C3: a resolved key holds the summary decoded from the earliest directory of
\* the search path with a decodable file of that name, and the directories
\* after it were not probed for the name.
C3_FirstHit ==
    \A n \in DOMAIN res :
        res[n] # None =>
            /\ HitIdx(n) # {}
            /\ LET k == FirstHit(n)
                   file == fs[search_path[k], n]
               IN  /\ res[n][1].filename = Candidate(search_path[k], n)
                   /\ res[n][1].binary_type = file.kind
                   /\ res[n][1].deps = file.deps
                   /\ probes[n] = SubSeq(search_path, 1, k)

\* Reached: two different directories hold different decodable files of one
\* name and the walk has recorded the name.
C3_Witness ==
    /\ pc = "done"
    /\ Len(search_path) = 2
    /\ search_path[1] # search_path[2]
    /\ \E n \in DOMAIN res :
          /\ res[n] # None
          /\ HitIdx(n) = {1, 2}
          /\ fs[search_path[1], n] # fs[search_path[2], n]

\* C4: in one walk each needed-name is pushed on the queue, taken from it and
\* inserted into the map at most once, and no directory is probed twice for
\* it; so a name recorded as None is not tried again.
C4_AtMostOnce ==
    \A n \in Names :
        /\ enq[n] <= 1
        /\ taken[n] <= 1
        /\ ins[n] <= 1
        /\ Len(probes[n]) <= Len(search_path)
        /\ Count(work_items, n) <= 1

\* Reached: a returned map where the root lists a name, a resolved dependency
\* lists it twice more, and the name failed to resolve.
C4_Witness ==
    /\ pc = "done"
    /\ \E n \in DOMAIN res, m \in DOMAIN res :
          /\ Count(elf.deps, n) >= 1
          /\ res[n] = None
          /\ res[m] # None
          /\ Count(res[m][1].deps, n) = 2

RECURSIVE SumOver(_, _)
SumOver(f, S) ==
    IF S = {} THEN 0
    ELSE LET x == CHOOSE y \in S : TRUE IN f[x] + SumOver(f, S \ {x})

\* C5: the walk stops on every input, cycles and self-loops included: the loop
\* runs at most once per distinct needed-name, and it ends with an empty queue
\* (or in the abort of the decoder).
C5_Terminates ==
    /\ [](SumOver(taken, Names) <= Cardinality(seen_items))
    /\ [](pc = "done" => work_items = <<>>)
    /\ <>(pc \in {"done", "panic"})

\* Reached: a returned map over a cycle (a needs ab, ab needs a) with a
\* self-loop (a needs a).
C5_Witness ==
    /\ pc = "done"
    /\ DOMAIN res = Names
    /\ res[<<1>>] # None
    /\ res[<<1, 2>>] # None
    /\ res[<<1>>][1].deps = <<<<1>>, <<1, 2>>>>
    /\ res[<<1, 2>>][1].deps = <<<<1>>>>

\* C6 (as claimed): for a root that needs b, where b needs the root's own name,
\* the returned map has exactly the key b.
C6_RootNotReported ==
    \A b \in Names \ {RootName} :
        (/\ pc = "done"
         /\ elf.binary_type = "Dynamic"
         /\ elf.deps = <<b>>
         /\ b \in DOMAIN res
         /\ res[b] # None
         /\ res[b][1].deps = <<RootName>>)
            => DOMAIN res = {b}

\* C7 (as claimed): resolve_dependencies returns normally on every input.
C7_NeverAborts == pc # "panic"

Dequeued == {n \in Names : taken[n] >= 1}

C23_QueueSeen ==
    /\ Range(work_items) \subseteq seen_items
    /\ \A n \in Names : Count(work_items, n) <= 1
    /\ seen_items = {n \in Names : enq[n] >= 1}
    /\ Dequeued \subseteq seen_items
    /\ DOMAIN res \subseteq Dequeued
    /\ Dequeued \cap Range(work_items) = {}

C23_NoReEnqueue ==
    \A n \in Dequeued :
        /\ enq'[n] = enq[n]
        /\ n \notin Range(work_items')

\* C23: a needed-name is marked seen with the push that enqueues it: the seen
\* set is exactly the set of names pushed so far, every queued name is in it,
\* no name is queued twice, and a name that was taken from the queue (and so
\* every recorded name) is not pushed again.
C23_SeenAtEnqueue == [](C23_QueueSeen) /\ [][C23_NoReEnqueue]_vars

\* Reached: the loop is about to return; the root needs "ab" then "a", "ab"
\* resolved to an image that lists "a" (then queued) and "ab" (then taken),
\* and "a" resolved to an image that lists both recorded names.
C23_Witness ==
    /\ pc = "loop"
    /\ work_items = <<>>
    /\ elf.deps = <<<<1, 2>>, <<1>>>>
    /\ DOMAIN res = Names
    /\ res[<<1, 2>>] # None
    /\ res[<<1, 2>>][1].deps = <<<<1>>, <<1, 2>>>>
    /\ res[<<1>>] # None
    /\ res[<<1>>][1].deps = <<<<1, 2>>, <<1>>>>
    /\ enq = [n \in Names |-> 1]

\* The needed-names of the image a name resolves to: those of the first
\* decodable file of that name on the search path, none when there is no such
\* file.
NeedsOf(n) ==
    IF HitIdx(n) = {} THEN {}
    ELSE Range(fs[search_path[FirstHit(n)], n].deps)

\* The least set that holds the names in S and the needed-names of every image
\* one of its names resolves to.
RECURSIVE Closure(_)
Closure(S) ==
    LET T == S \cup UNION {NeedsOf(n) : n \in S}
    IN  IF T = S THEN S ELSE Closure(T)

----------------------------------------------------------------------------
(* Properties of the symbol linker *)

Resolved == {n \in DOMAIN res : res[n] # None}

\* The resolved dynamic dependencies that export a symbol named s.
Exporters(s) ==
    {n \in Resolved : /\ res[n][1].binary_type = "Dynamic"
                      /\ s \in Range(res[n][1].provided_dynamic_symbols)}

Greatest(S) == CHOOSE n \in S : \A o \in S \ {n} : StrLess(o, n)

RootImports ==
    IF elf.binary_type = "Dynamic" THEN Range(elf.dynamic_symbol_refs) ELSE {}

AllImports ==
    RootImports \cup UNION {Range(res[n][1].dynamic_symbol_refs) : n \in Resolved}

\* C8: when resolved dynamic dependencies export a symbol the image imports,
\* resolve_symbols maps the symbol to the exporter with the lexicographically
\* greatest needed-name, the last one in the map's iteration order.
C8_LastWriterWins ==
    /\ pc = "rendered" /\ plain_resolutions # None =>
          \A s \in RootImports :
              Exporters(s) # {} =>
                  /\ s \in DOMAIN plain_resolutions[1]
                  /\ plain_resolutions[1][s] = res[Greatest(Exporters(s))][1]
    /\ pc = "app_libs" /\ lib_idx = 1 =>
          \A s \in RootImports :
              Exporters(s) # {} =>
                  /\ s \in DOMAIN symbol_resolutions
                  /\ symbol_resolutions[s] = res[Greatest(Exporters(s))][1]

\* Reached: the plain renderer has linked a root importing a symbol that both
\* dependencies export.
C8_Witness ==
    /\ pc = "rendered"
    /\ \E s \in RootImports :
          /\ Exporters(s) = Names
          /\ plain_resolutions[1][s] = res[<<1, 2>>][1]
          /\ plain_resolutions[1][s] # res[<<1>>][1]

\* C9: every key of the merged map is imported by the root or by a resolved
\* dependency, and its value is the summary of a resolved dynamic dependency
\* that exports the symbol, never the root's.
C9_ProviderSound ==
    \A s \in DOMAIN symbol_resolutions :
        /\ s \in AllImports
        /\ \E n \in Exporters(s) : symbol_resolutions[s] = res[n][1]
        /\ symbol_resolutions[s] # elf

\* Reached: App::new has finished with a key the root does not import but
\* exports itself, next to a static dependency.
C9_Witness ==
    /\ pc = "app_ready"
    /\ \E s \in DOMAIN symbol_resolutions :
          /\ s \notin RootImports
          /\ s \in Range(elf.provided_dynamic_symbols)
    /\ \E n \in Resolved : res[n][1].binary_type = "Static"

\* C10: an imported symbol is absent from the resolution map exactly when no
\* resolved dependency exports its name: in the plain renderer's map for the
\* root's imports, in the merged map of App::new for all imports.
C10_AbsentIffNoExporter ==
    /\ pc = "rendered" /\ plain_resolutions # None =>
          \A s \in RootImports :
              (s \notin DOMAIN plain_resolutions[1]) <=> (Exporters(s) = {})
    /\ pc = "app_ready" =>
          \A s \in AllImports :
              (s \notin DOMAIN symbol_resolutions) <=> (Exporters(s) = {})

\* Reached: App::new has finished, one dependency is recorded as None, the
\* root's import has no exporter and is absent, a dependency's import is present.
C10_Witness ==
    /\ pc = "app_ready"
    /\ \E n \in DOMAIN res : res[n] = None
    /\ \E s \in RootImports : s \notin DOMAIN symbol_resolutions
    /\ \E t \in AllImports : t \in DOMAIN symbol_resolutions

\* The image a logged path stands for: the root, or the dependency resolved
\* under the path's file name.
ImageAt(path) == IF path = elf.filename THEN elf ELSE res[path[2]][1]

\* The linker runs App::new has made: the root first when it is dynamic, then
\* each resolved dynamic dependency once, in ascending needed-name order.
C13_LogOrder ==
    pc = "app_ready" =>
        LET first == IF elf.binary_type = "Dynamic" THEN 1 ELSE 0
            libs == SubSeq(merge_log, first + 1, Len(merge_log))
        IN  /\ Len(merge_log) >= first
            /\ first = 1 => merge_log[1] = elf.filename
            /\ Range(libs) = {res[n][1].filename :
                                n \in {m \in Resolved : res[m][1].binary_type = "Dynamic"}}
            /\ \A i \in 1..Len(libs), j \in 1..Len(libs) :
                   i < j => StrLess(libs[i][2], libs[j][2])

\* One merge: the symbols the merged image imports and some dependency exports
\* get the entry of this run, whether the map held them or not; every other
\* entry stays.
C13_MergeStep ==
    Len(merge_log') = Len(merge_log) + 1 =>
        LET img == ImageAt(merge_log'[Len(merge_log')])
            keys == {s \in Range(img.dynamic_symbol_refs) : Exporters(s) # {}}
        IN  /\ DOMAIN symbol_resolutions' = DOMAIN symbol_resolutions \cup keys
            /\ \A s \in keys :
                   symbol_resolutions'[s] = res[Greatest(Exporters(s))][1]
            /\ \A s \in DOMAIN symbol_resolutions \ keys :
                   symbol_resolutions'[s] = symbol_resolutions[s]

\* C13: App::new runs the linker over the root's imports, then over the imports
\* of each resolved dependency in ascending needed-name order, and merges every
\* result into one map; a symbol of two merges holds the entry of the later one.
C13_MergeOrder == [](C13_LogOrder) /\ [][C13_MergeStep]_vars

\* Reached: App::new has finished three linker runs, and the root and the
\* dependency "a" import one symbol that the dependency "ab" exports.
C13_Witness ==
    /\ pc = "app_ready"
    /\ Len(merge_log) = 3
    /\ \E s \in RootImports :
          /\ s \in Range(res[<<1>>][1].dynamic_symbol_refs)
          /\ s \in Range(res[<<1, 2>>][1].provided_dynamic_symbols)
          /\ symbol_resolutions[s] = res[<<1, 2>>][1]

\* The images App::new links: the root, then the resolved dependencies.
LinkedImages == <<elf>> \o all_libs(res)

\* The map one linker run of App::new gives for an image (app.rs:150-163).
PerImage(img) ==
    IF img.binary_type = "Static" THEN <<>>
    ELSE resolve_symbols(img.dynamic_symbol_refs, all_libs(res))

\* The per-image maps merged in the order of a list of images.
RECURSIVE MergeAll(_)
MergeAll(imgs) ==
    IF imgs = <<>> THEN <<>>
    ELSE MapAppend(MergeAll(SubSeq(imgs, 1, Len(imgs) - 1)),
                   PerImage(imgs[Len(imgs)]))

\* The import lists of a list of images, one after the other.
RECURSIVE ImportsOf(_)
ImportsOf(imgs) ==
    IF imgs = <<>> THEN <<>>
    ELSE (IF Head(imgs).binary_type = "Static" THEN <<>>
          ELSE Head(imgs).dynamic_symbol_refs) \o ImportsOf(Tail(imgs))

Orders(n) == {p \in [1..n -> 1..n] : \A i \in 1..n, j \in 1..n : p[i] = p[j] => i = j}

\* C26: the maps the linker gives for two images agree on every symbol both
\* hold; so the map App::new has merged is the merge of the per-image maps in
\* any order, and is the map of one linker run over all imports.
C26_ConflictFree ==
    /\ \A i \in 1..Len(LinkedImages), j \in 1..Len(LinkedImages) :
          \A s \in DOMAIN PerImage(LinkedImages[i]) \cap DOMAIN PerImage(LinkedImages[j]) :
              PerImage(LinkedImages[i])[s] = PerImage(LinkedImages[j])[s]
    /\ pc = "app_ready" =>
          /\ \A p \in Orders(Len(LinkedImages)) :
                 symbol_resolutions =
                     MergeAll([i \in 1..Len(LinkedImages) |-> LinkedImages[p[i]]])
          /\ symbol_resolutions =
                 resolve_symbols(ImportsOf(LinkedImages), all_libs(res))

\* Reached: App::new has merged three maps; the root imports "f", the
\* dependency "a" imports "f" and "g", and both dependencies export "f".
C26_Witness ==
    /\ pc = "app_ready"
    /\ Len(merge_log) = 3
    /\ elf.dynamic_symbol_refs = <<"f">>
    /\ res[<<1>>][1].dynamic_symbol_refs = <<"f", "g">>
    /\ Exporters("f") = Names
    /\ Exporters("g") = {<<1, 2>>}
    /\ symbol_resolutions["f"] = res[<<1, 2>>][1]

\* What a renderer shows for a symbol: its provider, or "<Unresolved>".
Lookup(m, s) == IF s \in DOMAIN m THEN Some(m[s]) ELSE None

\* C27: for every symbol the root imports, the plain renderer's map and the
\* merged map of App::new give the same provider or are both without one.
C27_PlainAgreesWithApp ==
    /\ pc = "rendered" /\ plain_resolutions # None =>
          \A s \in RootImports :
              Lookup(plain_resolutions[1], s) = Lookup(MergeAll(LinkedImages), s)
    /\ pc \in {"app_libs", "app_ready"} =>
          \A s \in RootImports :
              Lookup(symbol_resolutions, s)
                  = Lookup(resolve_symbols(elf.dynamic_symbol_refs, all_libs(res)), s)

\* Reached: App::new has finished; the root imports "f" and "g"; "f" is
\* exported by both dependencies and imported by the last one merged, "g" is
\* exported by none.
C27_Witness ==
    /\ pc = "app_ready"
    /\ elf.dynamic_symbol_refs = <<"f", "g">>
    /\ Exporters("f") = Names
    /\ Exporters("g") = {}
    /\ "f" \in Range(res[<<1, 2>>][1].dynamic_symbol_refs)
    /\ Lookup(symbol_resolutions, "f") = Some(res[<<1, 2>>][1])
    /\ Lookup(symbol_resolutions, "g") = None

----------------------------------------------------------------------------
(* Properties of main *)

\* C11: when the root image is Static, resolve_dependencies returns the empty
\* map (nothing is ever queued, probed or inserted), and App::new links
\* nothing: its symbol-resolution map is empty.
C11_StaticRootEmpty ==
    input_file.kind = "Static" =>
        /\ res = <<>>
        /\ work_items = <<>>
        /\ \A n \in Names : probes[n] = <<>>
        /\ symbol_resolutions = <<>>
        /\ merge_log = <<>>

\* Reached: App::new has finished on a static root, with two directories on
\* the search path.
C11_Witness ==
    /\ pc = "app_ready"
    /\ input_file.kind = "Static"
    /\ elf.binary_type = "Static"
    /\ Len(search_path) = 2

\* C12: when the root file is not an ELF, main ends with the error value of
\* summarize_path, and neither the search path nor the dependency map is
\* computed.
C12_NotElfIsError ==
    input_file.kind = "NotElf" =>
        /\ pc \in {"main_start", "main_err"}
        /\ search_path = <<>>
        /\ res = <<>>

----------------------------------------------------------------------------
(* Properties of the decoder *)

\* The decode has run on an image that has the three sections.
DecodedFull ==
    /\ pc = "decoded"
    /\ image.dynamic # None
    /\ image.dynstr # None
    /\ image.dynsym # None

\* Every DT_NEEDED entry of the image names a readable UTF-8 string.
NeededFine ==
    \A i \in 1..Len(image.dynamic[1]) :
        LET d == image.dynamic[1][i]
            s == StringAt(image.dynstr[1], U16(d.d_val, image.endian))
        IN  U16(d.d_tag, image.endian) = DT_NEEDED => s.ok /\ ValidUtf8(s.bytes)

\* The name the decoder gives the i-th entry of .dynsym.
EntryName(i) == VersionedSymbol_new(image.endian, image.dynstr[1], image.dynsym[1][i])

EntryUndefined(i) == U16(image.dynsym[1][i].st_shndx, image.endian) = SHN_UNDEF

\* The positions first..last of .dynsym whose entry has a name and is
\* undefined (or defined), in table order.
KeptFrom(first, undefined) ==
    SelectSeq([i \in 1..Len(image.dynsym[1]) |-> i],
              LAMBDA i : /\ i >= first
                         /\ EntryName(i) # <<>>
                         /\ EntryUndefined(i) = undefined)

\* The imports and exports are the entries at the positions from `first` on
\* that have a name, split by their section index, each side in table order,
\* an export with the value and size of its entry.
SymbolsAreKeptFrom(first) ==
    LET undef == KeptFrom(first, TRUE)
        def == KeptFrom(first, FALSE)
        summ == summary[1].summ[1]
    IN  /\ summ.dynamic_symbol_refs =
              [k \in 1..Len(undef) |-> [symbol |-> EntryName(undef[k])]]
        /\ summ.provided_dynamic_symbols =
              [k \in 1..Len(def) |->
                  [symbol |-> EntryName(def[k]),
                   size |-> U16(image.dynsym[1][def[k]].st_size, image.endian),
                   address |-> U16(image.dynsym[1][def[k]].st_value, image.endian)]]

\* C17: the first entry of .dynsym is always omitted, and so is every entry
\* whose name is empty; each other entry goes to the imports if its section
\* index is SHN_UNDEF and to the exports, with value and size, otherwise, both
\* in table order.
C17_FirstAndEmptyOmitted ==
    DecodedFull /\ summary[1].tag = "Ok" => SymbolsAreKeptFrom(2)

NameUnreadable(i) ==
    ~StringAt(image.dynstr[1], U16(image.dynsym[1][i].st_name, image.endian)).ok

NameNotUtf8(i) ==
    LET s == StringAt(image.dynstr[1], U16(image.dynsym[1][i].st_name, image.endian))
    IN  s.ok /\ ~ValidUtf8(s.bytes)

\* The names the summary holds for the entries whose name failed to decode.
FailedNames ==
    LET undef == KeptFrom(1, TRUE)
        def == KeptFrom(1, FALSE)
        summ == summary[1].summ[1]
    IN  {summ.dynamic_symbol_refs[k].symbol :
            k \in {j \in 1..Len(undef) : NameUnreadable(undef[j]) \/ NameNotUtf8(undef[j])}}
        \cup {summ.provided_dynamic_symbols[k].symbol :
            k \in {j \in 1..Len(def) : NameUnreadable(def[j]) \/ NameNotUtf8(def[j])}}

\* The decode of an image whose needed list decodes does not abort, keeps one
\* symbol per named entry and produces the needed list.
DecodeGoesOn ==
    /\ summary[1].tag = "Ok"
    /\ Len(summary[1].summ[1].dynamic_symbol_refs) = Len(KeptFrom(1, TRUE))
    /\ Len(summary[1].summ[1].provided_dynamic_symbols) = Len(KeptFrom(1, FALSE))
    /\ \A i \in 1..Len(image.dynsym[1]) :
          NameUnreadable(i) \/ NameNotUtf8(i) => EntryName(i) # <<>>
    /\ Len(summary[1].summ[1].deps) =
          Cardinality({i \in 1..Len(image.dynamic[1]) :
                          U16(image.dynamic[1][i].d_tag, image.endian) = DT_NEEDED})

\* C19 as stated: a symbol whose name is no UTF-8 or cannot be read does not
\* abort the decode; it is kept under one non-empty sentinel name, the same for
\* every such symbol, and the other symbols and the needed list are produced.
C19_OneSentinel ==
    DecodedFull /\ NeededFine =>
        /\ DecodeGoesOn
        /\ Cardinality(FailedNames) <= 1
        /\ <<>> \notin FailedNames

\* "f" followed by U+FFFD: the lossy decoding of the bytes 'f' 0xFF.
LossyName == <<102, 239, 191, 189>>

\* C19, amended: such a symbol does not abort the decode and is kept under a
\* non-empty name, which is the sentinel "<Error>" when the name cannot be
\* read from .dynstr and the name with U+FFFD for its invalid bytes when it is
\* no UTF-8; the other symbols keep their names and the needed list is produced.
C19_DecodePartial ==
    DecodedFull /\ NeededFine =>
        /\ DecodeGoesOn
        /\ <<>> \notin FailedNames
        /\ LET undef == KeptFrom(1, TRUE)
               def == KeptFrom(1, FALSE)
               summ == summary[1].summ[1]
               Expected(i) ==
                   LET s == StringAt(image.dynstr[1],
                                     U16(image.dynsym[1][i].st_name, image.endian))
                   IN  IF ~s.ok THEN ErrorName
                       ELSE IF ValidUtf8(s.bytes) THEN s.bytes
                       ELSE LossyName
           IN  /\ \A k \in 1..Len(undef) :
                      summ.dynamic_symbol_refs[k].symbol = Expected(undef[k])
               /\ \A k \in 1..Len(def) :
                      summ.provided_dynamic_symbols[k].symbol = Expected(def[k])

\* Reached: a decoded image that needs "g" and "f" and whose table holds an
\* entry with an unreadable name, one whose name is no UTF-8 and the symbol
\* "g"; the summary has the three symbols, under two different failure names.
C19_Witness ==
    /\ DecodedFull
    /\ NeededFine
    /\ summary[1].tag = "Ok"
    /\ Len(summary[1].summ[1].deps) = 2
    /\ \E i, j, k \in 1..Len(image.dynsym[1]) :
          /\ NameUnreadable(i)
          /\ NameNotUtf8(j)
          /\ EntryName(k) = <<103>>
    /\ FailedNames = {ErrorName, LossyName}
    /\ Len(summary[1].summ[1].dynamic_symbol_refs)
         + Len(summary[1].summ[1].provided_dynamic_symbols) = 3

\* The same sections with every field in the other byte order.
Swap(b) == <<b[2], b[1]>>

Recode(img) ==
    [endian |-> IF img.endian = "Little" THEN "Big" ELSE "Little",
     dynstr |-> img.dynstr,
     dynamic |-> IF img.dynamic = None THEN None
                 ELSE Some([i \in 1..Len(img.dynamic[1]) |->
                              [d_tag |-> Swap(img.dynamic[1][i].d_tag),
                               d_val |-> Swap(img.dynamic[1][i].d_val)]]),
     dynsym |-> IF img.dynsym = None THEN None
                ELSE Some([i \in 1..Len(img.dynsym[1]) |->
                             [st_name |-> Swap(img.dynsym[1][i].st_name),
                              st_shndx |-> Swap(img.dynsym[1][i].st_shndx),
                              st_value |-> Swap(img.dynsym[1][i].st_value),
                              st_size |-> Swap(img.dynsym[1][i].st_size)]])]

\* C20: the image in the other byte order decodes to the same outcome: the
\* same error, or a summary with the same needed list, imports and exports
\* (names, values and sizes) and the other byte order in its endianness field.
\* The values are the encoded ones: every size is 8, every address a multiple
\* of 16 up to 16 * (Len(DynStrTab) + 1), every needed name "f" or "g".
C20_ByteOrderIndependent ==
    pc = "decoded" =>
        LET r == summary[1]
            o == summarize_elf(Recode(image))
        IN  /\ o.tag = r.tag
            /\ o.err = r.err
            /\ r.tag = "Ok" =>
                  LET a == r.summ[1]
                      b == o.summ[1]
                  IN  /\ a.endianness = image.endian
                      /\ b.endianness # a.endianness
                      /\ b.binary_type = a.binary_type
                      /\ b.deps = a.deps
                      /\ b.dynamic_symbol_refs = a.dynamic_symbol_refs
                      /\ b.provided_dynamic_symbols = a.provided_dynamic_symbols
                      /\ Range(a.deps) \subseteq {<<102>>, <<103>>}
                      /\ \A k \in 1..Len(a.provided_dynamic_symbols) :
                             /\ a.provided_dynamic_symbols[k].size = 8
                             /\ a.provided_dynamic_symbols[k].address
                                  \in {16 * (n + 1) : n \in NameOffsets}

\* Reached: a big-endian image that needs "g" and "f", imports "f" and exports
\* "g" at address 48 has been decoded.
C20_Witness ==
    /\ pc = "decoded"
    /\ image.endian = "Big"
    /\ summary[1].tag = "Ok"
    /\ summary[1].summ[1].endianness = "Big"
    /\ summary[1].summ[1].deps = <<<<103>>, <<102>>>>
    /\ \E k \in 1..Len(summary[1].summ[1].dynamic_symbol_refs) :
          summary[1].summ[1].dynamic_symbol_refs[k].symbol = <<102>>
    /\ \E k \in 1..Len(summary[1].summ[1].provided_dynamic_symbols) :
          /\ summary[1].summ[1].provided_dynamic_symbols[k].symbol = <<103>>
          /\ summary[1].summ[1].provided_dynamic_symbols[k].address = 48

----------------------------------------------------------------------------
(* Properties of the interactive App *)

\* The entries of the binary list: 0 is the root, i the i-th dependency.
ListEntries == 0..Cardinality(DOMAIN res)

EntryImage(i) == IF i = 0 THEN Some(elf) ELSE DepValues[i]

\* The paths of the images of the list.
ImagePaths == {EntryImage(i)[1].filename : i \in {j \in ListEntries : EntryImage(j) # None}}

\* The path of the selected image, if an image is selected.
SelectedPaths ==
    IF App_selected_binary(App) = None THEN {}
    ELSE {App_selected_binary(App)[1].filename}

\* The path of the selected image, if it is a dynamic image.
SelectedDynamicPaths ==
    {p \in SelectedPaths : App_selected_binary(App)[1].binary_type = "Dynamic"}

C21_Visits ==
    pc = "app_ready" =>
        /\ DOMAIN binary_ui_state \subseteq ImagePaths
        /\ DOMAIN draw(App).binary_ui_state = DOMAIN binary_ui_state \cup SelectedPaths
        /\ \A p \in DOMAIN binary_ui_state :
               draw(App).binary_ui_state[p] = binary_ui_state[p]
        /\ \A evt \in KeyEvents :
               LET after == on_key(App, evt).binary_ui_state
               IN  /\ DOMAIN after =
                          DOMAIN binary_ui_state
                          \cup (IF evt.code \in {"Up", "Down"}
                                THEN SelectedDynamicPaths ELSE {})
                   /\ \A p \in DOMAIN after \ DOMAIN binary_ui_state :
                          after[p] = BinaryUIState_new
        /\ \A i \in ListEntries :
               EntryImage(i) # None =>
                   LET bin == EntryImage(i)[1]
                       m == ui_state_entry(binary_ui_state, bin)
                   IN  /\ bin.filename \in DOMAIN m
                       /\ bin.filename \in DOMAIN binary_ui_state => m = binary_ui_state
                       /\ bin.filename \notin DOMAIN binary_ui_state =>
                             /\ m[bin.filename] = BinaryUIState_new
                             /\ \A p \in DOMAIN binary_ui_state : m[p] = binary_ui_state[p]

C21_Grows ==
    /\ pc = "app_libs" /\ pc' = "app_ready" => binary_ui_state' = <<>>
    /\ DOMAIN binary_ui_state \subseteq DOMAIN binary_ui_state'
    /\ \A p \in DOMAIN binary_ui_state' \ DOMAIN binary_ui_state :
           /\ p \in SelectedPaths
           /\ binary_ui_state'[p] = BinaryUIState_new

\* C21: the map of UI states is keyed by path and filled on demand: App::new
\* leaves it empty; a step adds at most the path of the selected image, with
\* a new state, and removes nothing; a draw adds the selected image's path,
\* Up and Down add it when the image is dynamic, no other key adds a path; a
\* draw and the lookup leave an existing entry as it is; the lookup returns a
\* state for every image.
C21_LazyByPath == [](C21_Visits) /\ [][C21_Grows]_vars

\* Reached: two images have a state, one of them with another tab than the
\* first, and the selected image has none yet.
C21_Witness ==
    /\ pc = "app_ready"
    /\ Cardinality(DOMAIN binary_ui_state) = 2
    /\ \E p \in DOMAIN binary_ui_state : binary_ui_state[p].tab_state.selected_tab = 2
    /\ SelectedPaths # {}
    /\ SelectedPaths \cap DOMAIN binary_ui_state = {}

\* The UI state an entry of the list is shown with: the state at its image's
\* path, a new one when the path has none yet.
EntryState(app, i) ==
    LET p == EntryImage(i)[1].filename
    IN  IF p \in DOMAIN app.binary_ui_state THEN app.binary_ui_state[p]
        ELSE BinaryUIState_new

\* The resolved entries of the list other than the selected one.
OtherEntries ==
    {j \in ListEntries : EntryImage(j) # None /\ Some(j) # selected_binary}

\* C22 (as claimed): whatever key is handled while one entry of the list is
\* selected, the selected tab and the table selections of every other resolved
\* entry stay as they are.
C22_PerEntryState ==
    pc = "app_ready" /\ selected_binary # None =>
        LET before == [j \in OtherEntries |-> EntryState(App, j)]
        IN  \A evt \in KeyEvents :
                LET after == on_key(App, evt)
                IN  \A j \in DOMAIN before : EntryState(after, j) = before[j]

\* C22 (amended): the state is per image path.  A key handled while one entry
\* is selected leaves the tab and the table selections of every entry with
\* another path as they are; an entry with the path of the selected one (a
\* dependency that resolves to the root's path) shows the selected one's
\* state, so that ALT+3 on the one switches the other to the third tab too.
C22_PerPathState ==
    pc = "app_ready" /\ selected_binary # None =>
        LET before == [j \in OtherEntries |-> EntryState(App, j)]
            shared == {j \in OtherEntries : SelectedPaths = {EntryImage(j)[1].filename}}
        IN  \A evt \in KeyEvents :
                LET after == on_key(App, evt)
                IN  \A j \in DOMAIN before :
                        IF j \in shared
                        THEN (/\ evt = KeyEvent("3", "ALT")
                              /\ SelectedPaths \subseteq DOMAIN binary_ui_state)
                                 => EntryState(after, j).tab_state.selected_tab = 2
                        ELSE EntryState(after, j) = before[j]

\* Reached: the root is lib/a and the dependency "a", which resolved to the
\* same path, is selected and shown with the second tab; the dependency "ab"
\* has the third tab and the last row of its export table selected.
C22_Witness ==
    /\ pc = "app_ready"
    /\ elf.filename = Candidate("lib", <<1>>)
    /\ selected_binary = Some(1)
    /\ DOMAIN res = Names
    /\ res[<<1>>] # None
    /\ res[<<1>>][1].filename = elf.filename
    /\ res[<<1, 2>>] # None
    /\ DOMAIN binary_ui_state = {Candidate("lib", <<1>>), Candidate("lib", <<1, 2>>)}
    /\ binary_ui_state[Candidate("lib", <<1>>)].tab_state.selected_tab = 1
    /\ binary_ui_state[Candidate("lib", <<1, 2>>)].tab_state.selected_tab = 2
    /\ binary_ui_state[Candidate("lib", <<1, 2>>)].defined_dynamic_table_state
          = Some(MaxRows - 1)

\* C25: in the loop of run_app, whenever a key is about to be read and a
\* resolved binary is selected, the draw before has instantiated its UI state;
\* so ALT+1, ALT+2 and ALT+3 put the selected binary on that tab, and change
\* nothing else.
C25_AltAfterDraw ==
    pc = "run_poll" /\ SelectedPaths # {} =>
        /\ SelectedPaths \subseteq DOMAIN binary_ui_state
        /\ \A c \in {"1", "2", "3"} :
               LET after == on_key(App, KeyEvent(c, "ALT"))
                   path == CHOOSE p \in SelectedPaths : TRUE
               IN  /\ after.binary_ui_state[path].tab_state.selected_tab = to_digit[c] - 1
                   /\ after = [App EXCEPT
                          !.binary_ui_state[path].tab_state.selected_tab = to_digit[c] - 1]

\* Reached: the loop waits for a key; the dependency "ab" is selected, was
\* selected by Ctrl-n twice and put on the third tab, and the root, drawn
\* before it, is on the second tab.
C25_Witness ==
    /\ pc = "run_poll"
    /\ selected_binary = Some(2)
    /\ elf.filename = RootPath
    /\ res[<<1, 2>>] # None
    /\ Candidate("lib", <<1, 2>>) \in DOMAIN binary_ui_state
    /\ binary_ui_state[Candidate("lib", <<1, 2>>)].tab_state.selected_tab = 2
    /\ RootPath \in DOMAIN binary_ui_state
    /\ binary_ui_state[RootPath].tab_state.selected_tab = 1

\* C28: the selected-binary index is unset or at most the number of entries of
\* the dependency map: Ctrl-n from unset selects 0 and otherwise moves down by
\* one, staying at the last entry; Ctrl-p from unset selects the last entry and
\* otherwise moves up by one, staying at 0; no other key moves the selection,
\* and App::selected_binary never indexes out of bounds.
C28_SelectionInBounds ==
    LET N == Cardinality(DOMAIN res)
        next == on_key(App, KeyEvent("n", "CONTROL")).selected_binary
        prev == on_key(App, KeyEvent("p", "CONTROL")).selected_binary
    IN  /\ pc # "panic"
        /\ selected_binary = None \/ selected_binary[1] \in 0..N
        /\ ~IndexPanics(App)
        /\ pc = "app_ready" =>
              /\ selected_binary = None => next = Some(0) /\ prev = Some(N)
              /\ selected_binary # None =>
                    /\ next = Some(IF selected_binary[1] < N
                                   THEN selected_binary[1] + 1 ELSE N)
                    /\ prev = Some(IF selected_binary[1] > 0
                                   THEN selected_binary[1] - 1 ELSE 0)
              /\ \A evt \in KeyEvents :
                     on_key(App, evt).selected_binary # selected_binary =>
                         evt \in {KeyEvent("n", "CONTROL"), KeyEvent("p", "CONTROL")}

\* Reached: the last of three entries is selected, an unresolved dependency,
\* after the first two entries were selected and drawn.
C28_Witness ==
    /\ pc = "app_ready"
    /\ Cardinality(DOMAIN res) = 2
    /\ selected_binary = Some(2)
    /\ App_selected_binary(App) = None
    /\ Cardinality(DOMAIN binary_ui_state) = 2

\* The image of the list that has a path.
ImageOfPath(p) ==
    EntryImage(CHOOSE i \in ListEntries :
                   EntryImage(i) # None /\ EntryImage(i)[1].filename = p)[1]

\* A table selection over n rows is unset or the index of a row.
ValidRow(table_state, n) == table_state = None \/ table_state[1] \in 0..(n - 1)

\* Down and Up as claimed, on a table of n rows.
DownFrom(table_state, n) ==
    IF n = 0 THEN None
    ELSE IF table_state = None THEN Some(0)
    ELSE IF table_state[1] = n - 1 THEN Some(n - 1)
    ELSE Some(table_state[1] + 1)

UpFrom(table_state, n) ==
    IF n = 0 THEN None
    ELSE IF table_state = None THEN Some(n - 1)
    ELSE IF table_state[1] = 0 THEN Some(0)
    ELSE Some(table_state[1] - 1)

\* The claimed move of a key code.
MoveFrom(code, table_state, n) ==
    IF code = "Up" THEN UpFrom(table_state, n) ELSE DownFrom(table_state, n)

\* The state of the selected image after a key, against the state before it
\* with the table of the selected tab moved as claimed.
MovesSelectedTable(evt) ==
    LET bin == App_selected_binary(App)[1]
        st == IF bin.filename \in DOMAIN binary_ui_state
              THEN binary_ui_state[bin.filename] ELSE BinaryUIState_new
        after == on_key(App, evt)
        tab == selected_label(st.tab_state)
    IN  /\ after.should_quit = should_quit
        /\ after.selected_binary = selected_binary
        /\ \A p \in DOMAIN binary_ui_state \ {bin.filename} :
               after.binary_ui_state[p] = binary_ui_state[p]
        /\ after.binary_ui_state[bin.filename] =
              CASE tab = "DynamicDependencies" ->
                     [st EXCEPT !.dynamic_reference_table_state =
                         MoveFrom(evt.code, @, Len(bin.dynamic_symbol_refs))]
                [] tab = "DefinedDynamicSymbols" ->
                     [st EXCEPT !.defined_dynamic_table_state =
                         MoveFrom(evt.code, @, Len(bin.provided_dynamic_symbols))]
                [] OTHER -> st

\* C29: every table selection is unset or the index of a row of its table (so
\* unset for a table without rows); on a dynamic image Down moves the table of
\* the selected tab from unset to row 0 and by one row up to the last, Up from
\* unset to the last row and by one row down to row 0, and on the Overview tab
\* neither changes anything; on a static image neither does anything.
C29_TableSelectionValid ==
    /\ \A p \in DOMAIN binary_ui_state :
          /\ ValidRow(binary_ui_state[p].dynamic_reference_table_state,
                      Len(ImageOfPath(p).dynamic_symbol_refs))
          /\ ValidRow(binary_ui_state[p].defined_dynamic_table_state,
                      Len(ImageOfPath(p).provided_dynamic_symbols))
    /\ pc = "app_ready" /\ SelectedPaths # {} =>
          \A m \in {"NONE", "CONTROL"} :
              IF SelectedDynamicPaths = {}
              THEN /\ on_key(App, KeyEvent("Down", m)) = App
                   /\ on_key(App, KeyEvent("Up", m)) = App
              ELSE /\ MovesSelectedTable(KeyEvent("Down", m))
                   /\ MovesSelectedTable(KeyEvent("Up", m))

\* Reached: the root has the last row of its import table selected; the
\* dependency "ab", an image without imports, is selected on the import tab,
\* where its selection stays unset, and has the first of its exports selected.
C29_Witness ==
    /\ pc = "app_ready"
    /\ elf.filename = RootPath
    /\ RootPath \in DOMAIN binary_ui_state
    /\ binary_ui_state[RootPath].dynamic_reference_table_state = Some(MaxRows - 1)
    /\ selected_binary = Some(2)
    /\ res[<<1, 2>>] # None
    /\ res[<<1, 2>>][1].dynamic_symbol_refs = <<>>
    /\ Candidate("lib", <<1, 2>>) \in DOMAIN binary_ui_state
    /\ binary_ui_state[Candidate("lib", <<1, 2>>)].tab_state.selected_tab = 1
    /\ binary_ui_state[Candidate("lib", <<1, 2>>)].defined_dynamic_table_state = Some(0)

\* C30: while the selected entry is a dependency recorded as None,
\* App::selected_binary returns None; a draw, Up, Down and ALT+digit leave the
\* App as it is (no state is allocated, no tab or table selection changes), and
\* the only keys with an effect are Ctrl-n, Ctrl-p and Ctrl-q.
C30_UnresolvedIsNoOp ==
    (/\ pc = "app_ready"
     /\ ~should_quit
     /\ selected_binary # None
     /\ selected_binary[1] >= 1
     /\ EntryImage(selected_binary[1]) = None)
        => /\ App_selected_binary(App) = None
           /\ draw(App) = App
           /\ \A evt \in KeyEvents :
                  /\ ReadsSelection(evt) => on_key(App, evt) = App
                  /\ on_key(App, evt) # App =>
                         /\ evt.modifiers = "CONTROL"
                         /\ evt.code \in {"n", "p", "q"}
           /\ on_key(App, KeyEvent("q", "CONTROL")) # App
           /\ \/ on_key(App, KeyEvent("n", "CONTROL")) # App
              \/ on_key(App, KeyEvent("p", "CONTROL")) # App

\* Reached: the unresolved dependency "a" is selected, between the root and
\* the resolved dependency "ab", which both have a tab and a row selected.
C30_Witness ==
    /\ pc = "app_ready"
    /\ DOMAIN res = Names
    /\ res[<<1>>] = None
    /\ res[<<1, 2>>] # None
    /\ selected_binary = Some(1)
    /\ DOMAIN binary_ui_state = {RootPath, Candidate("lib", <<1, 2>>)}
    /\ \A p \in DOMAIN binary_ui_state :
          /\ binary_ui_state[p].tab_state.selected_tab # 0
          /\ \/ binary_ui_state[p].dynamic_reference_table_state # None
             \/ binary_ui_state[p].defined_dynamic_table_state # None

====
